---------------------------- MODULE Spec2Model ----------------------------
(***************************************************************************)
(* Historical price resolution of crypto-price-fetchers.                   *)
(*                                                                         *)
(* The Apps Script resolver (getCryptoPriceFromCentralizedExchange.gs) is  *)
(* modelled as concurrent executions sharing the script lock and the       *)
(* script cache; the Node resolver (crypto-price-filler/index.js) as one   *)
(* asynchronous call over an in-memory Map.                                *)
(*                                                                         *)
(* Units.  Instants are whole seconds since the epoch (the source's        *)
(* millisecond values divided by 1000; every accepted input has whole      *)
(* seconds, and TLC's integers are 32 bits wide).  Sleep lengths stay in   *)
(* milliseconds.  A price is an integer number of hundredths of a USD      *)
(* (191.20 is 19120); the prices the spread is applied to are multiples    *)
(* of 200, which keeps the 1.5 percent exact.                              *)
(*                                                                         *)
(* Texts on which the code works character by character (date strings,    *)
(* token symbols, timezone labels, cached values) are sequences of         *)
(* one-character strings; Join turns them into a string.                   *)
(***************************************************************************)
EXTENDS Integers, Sequences, FiniteSets, TLC

-----------------------------------------------------------------------------
(* JavaScript values *)

Num(n) == [t |-> "num", n |-> n]
NaN == [t |-> "nan"]
Null == [t |-> "null"]
Undefined == [t |-> "undefined"]
Str(s) == [t |-> "str", s |-> s]
Thrown(s) == [t |-> "throw", s |-> s]

\* typeof v === 'number' && !isNaN(v)
IsNumber(v) == v.t = "num"

-----------------------------------------------------------------------------
(* Texts *)

DigitChars == <<"0", "1", "2", "3", "4", "5", "6", "7", "8", "9">>
LowerChars == <<"a", "b", "c", "d", "e", "f", "g", "h", "i", "j", "k", "l", "m",
                "n", "o", "p", "q", "r", "s", "t", "u", "v", "w", "x", "y", "z">>
UpperChars == <<"A", "B", "C", "D", "E", "F", "G", "H", "I", "J", "K", "L", "M",
                "N", "O", "P", "Q", "R", "S", "T", "U", "V", "W", "X", "Y", "Z">>

IndexIn(c, alphabet) ==
  IF \E i \in 1..Len(alphabet) : alphabet[i] = c
    THEN CHOOSE i \in 1..Len(alphabet) : alphabet[i] = c
    ELSE 0

IsDigit(c) == IndexIn(c, DigitChars) > 0
DigitVal(c) == IndexIn(c, DigitChars) - 1

ToLowerCase(chars) ==
  [i \in 1..Len(chars) |->
     IF IndexIn(chars[i], UpperChars) > 0
       THEN LowerChars[IndexIn(chars[i], UpperChars)] ELSE chars[i]]

ToUpperCase(chars) ==
  [i \in 1..Len(chars) |->
     IF IndexIn(chars[i], LowerChars) > 0
       THEN UpperChars[IndexIn(chars[i], LowerChars)] ELSE chars[i]]

RECURSIVE Join(_)
Join(chars) == IF chars = <<>> THEN "" ELSE Head(chars) \o Join(Tail(chars))

\* parseInt(text, 10) of a text of digits
RECURSIVE ParseInt(_)
ParseInt(chars) ==
  IF chars = <<>> THEN 0
  ELSE ParseInt(SubSeq(chars, 1, Len(chars) - 1)) * 10 + DigitVal(chars[Len(chars)])

\* Number.prototype.toString of a non-negative integer
RECURSIVE NumToChars(_)
NumToChars(n) ==
  IF n < 10 THEN <<DigitChars[n + 1]>>
  ELSE NumToChars(n \div 10) \o <<DigitChars[(n % 10) + 1]>>

Pad2(n) == IF n < 10 THEN <<"0">> \o NumToChars(n) ELSE NumToChars(n)
Pad4(n) ==
  IF n < 10 THEN <<"0", "0", "0">> \o NumToChars(n)
  ELSE IF n < 100 THEN <<"0", "0">> \o NumToChars(n)
  ELSE IF n < 1000 THEN <<"0">> \o NumToChars(n)
  ELSE NumToChars(n)

\* the longest prefix of digits
RECURSIVE DigitPrefix(_)
DigitPrefix(chars) ==
  IF chars = <<>> \/ ~IsDigit(Head(chars)) THEN <<>>
  ELSE <<Head(chars)>> \o DigitPrefix(Tail(chars))

\* parseFloat of a cached text: the number its leading digits spell, NaN when
\* it starts with no digit
ParseFloat(chars) ==
  IF DigitPrefix(chars) = <<>> THEN NaN ELSE Num(ParseInt(DigitPrefix(chars)))

-----------------------------------------------------------------------------
(* Calendar arithmetic of the JavaScript Date object (proleptic Gregorian) *)

SecondsPerHour == 3600
SecondsPerDay == 24 * SecondsPerHour

\* days since 1970-01-01 of a civil date whose day may exceed the month's
\* length (Date.UTC and new Date(y, m, d) carry the excess over)
DaysFromCivil(y, m, d) ==
  LET yy == IF m <= 2 THEN y - 1 ELSE y
      era == yy \div 400
      yoe == yy - era * 400
      mp == IF m > 2 THEN m - 3 ELSE m + 9
      doy == (153 * mp + 2) \div 5 + d - 1
      doe == yoe * 365 + yoe \div 4 - yoe \div 100 + doy
  IN era * 146097 + doe - 719468

\* the civil date of a day number (days since 1970-01-01)
CivilFromDays(days) ==
  LET Civil(y, doy, mp) ==
        [year |-> IF mp < 10 THEN y ELSE y + 1,
         month |-> IF mp < 10 THEN mp + 3 ELSE mp - 9,
         day |-> doy - (153 * mp + 2) \div 5 + 1]
      FromDoy(y, doy) == Civil(y, doy, (5 * doy + 2) \div 153)
      FromYoe(era, doe, yoe) ==
        FromDoy(yoe + era * 400, doe - (365 * yoe + yoe \div 4 - yoe \div 100))
      FromDoe(era, doe) ==
        FromYoe(era, doe,
                (doe - doe \div 1460 + doe \div 36524 - doe \div 146096) \div 365)
      FromEra(z, era) == FromDoe(era, z - era * 146097)
  IN FromEra(days + 719468, (days + 719468) \div 146097)

\* Date.UTC(year, month - 1, day, hour, minute, second), in seconds
DateUTC(c) ==
  DaysFromCivil(c.year, c.month, c.day) * SecondsPerDay
    + c.hour * SecondsPerHour + c.minute * 60 + c.second

\* getUTCFullYear() .. getUTCSeconds() of new Date(sec * 1000)
UtcComponents(sec) ==
  [hour |-> (sec % SecondsPerDay) \div SecondsPerHour,
   minute |-> (sec % SecondsPerHour) \div 60,
   second |-> sec % 60] @@ CivilFromDays(sec \div SecondsPerDay)

\* Utilities.formatDate(new Date(sec * 1000), 'UTC', 'yyyy-MM-dd HH:mm:ss')
FormatDateTime(sec) ==
  LET Format(c) ==
        Pad4(c.year) \o <<"-">> \o Pad2(c.month) \o <<"-">> \o Pad2(c.day) \o <<" ">>
          \o Pad2(c.hour) \o <<":">> \o Pad2(c.minute) \o <<":">> \o Pad2(c.second)
  IN Format(UtcComponents(sec))

\* Utilities.formatDate(new Date(sec * 1000), 'UTC', 'dd-MM-yyyy')
FormatDay(sec) ==
  LET Format(c) == Pad2(c.day) \o <<"-">> \o Pad2(c.month) \o <<"-">> \o Pad4(c.year)
  IN Format(UtcComponents(sec))

-----------------------------------------------------------------------------
(* CONFIG of getCryptoPriceFromCentralizedExchange.gs *)

Text(chars) == [t |-> "text", c |-> chars]
DateObject(sec) == [t |-> "date", sec |-> sec]
InvalidDateObject == [t |-> "date_nan"]

\* CONFIG.TIMEZONE_OFFSETS[key]; Undefined for a key that is not in the table
TIMEZONE_OFFSETS(key) ==
  CASE key \in {"UTC", "GMT"} -> Num(0)
    [] key = "EST" -> Num(-5)
    [] key = "EDT" -> Num(-4)
    [] key = "CST" -> Num(-6)
    [] key = "CDT" -> Num(-5)
    [] key = "MST" -> Num(-7)
    [] key = "MDT" -> Num(-6)
    [] key = "PST" -> Num(-8)
    [] key = "PDT" -> Num(-7)
    [] OTHER -> Undefined

DAILY_PRICE == 86400
NEGATIVE_CACHE == 300
BTC_PRICE == 300
GENERAL_DELAY_MS == 200
\* a lock loop of one more turn
OneMoreLockRetry == 3 + 1

MAX_LOCK_RETRIES == 3
FlatBackoff == <<5000, 5000, 5000>>

LOCK_RETRY_BACKOFF == <<5000, 10000, 20000>>
GECKO_DELAY_MS == 500
GECKO_429_SLEEP_MS == 5000
\* a loop of one more request
FourAttempts == 3 + 1

GECKO_ATTEMPTS == 3
CANDLE_TOLERANCE == 120

NO_DATA == <<"N", "O", "_", "D", "A", "T", "A">>

-----------------------------------------------------------------------------
(* Time Normalizer (Apps Script) *)

\* tz is a Text or Null
getTimezoneOffsetHours(tz) ==
  LET label == IF tz.t = "text" /\ tz.c # <<>> THEN tz.c ELSE <<"U", "T", "C">>
      offset == TIMEZONE_OFFSETS(Join(ToUpperCase(label)))
  IN IF offset.t # "undefined" THEN offset.n ELSE 0

\* /^(\d{4})-(\d{2})-(\d{2}) (\d{2}):(\d{2}):(\d{2})$/
MatchesDateRegex(chars) ==
  /\ Len(chars) = 19
  /\ \A i \in {1, 2, 3, 4, 6, 7, 9, 10, 12, 13, 15, 16, 18, 19} : IsDigit(chars[i])
  /\ chars[5] = "-" /\ chars[8] = "-"
  /\ chars[11] = " "
  /\ chars[14] = ":" /\ chars[17] = ":"

\* a calendar in which every day number exists in every month
AnyDayExists(year, month, day) == day \in 1..31

\* new Date(year, month - 1, day) names the same day it was built from
IsCalendarDay(year, month, day) ==
  CivilFromDays(DaysFromCivil(year, month, 1) + day - 1)
    = [year |-> year, month |-> month, day |-> day]

\* the components of a date string, or the error string
parseDateStringToComponents(chars) ==
  IF ~MatchesDateRegex(chars)
    THEN Str("Invalid format. Use exactly YYYY-MM-DD HH:MM:SS (24-hour)")
  ELSE LET year == ParseInt(SubSeq(chars, 1, 4))
           month == ParseInt(SubSeq(chars, 6, 7))
           day == ParseInt(SubSeq(chars, 9, 10))
           hour == ParseInt(SubSeq(chars, 12, 13))
           minute == ParseInt(SubSeq(chars, 15, 16))
           second == ParseInt(SubSeq(chars, 18, 19))
       IN CASE year < 1970 \/ year > 2100 -> Str("Invalid year (1970-2100)")
            [] OTHER ->
          CASE month < 1 \/ month > 12 -> Str("Invalid month (01-12)")
            [] OTHER ->
          CASE day < 1 \/ day > 31 -> Str("Invalid day (01-31)")
            [] OTHER ->
          CASE hour < 0 \/ hour > 23 -> Str("Invalid hour (00-23)")
            [] OTHER ->
          CASE minute < 0 \/ minute > 59 -> Str("Invalid minute (00-59)")
            [] OTHER ->
          CASE second < 0 \/ second > 59 -> Str("Invalid second (00-59)")
            [] OTHER ->
          IF ~IsCalendarDay(year, month, day)
            THEN Str("Invalid date (e.g., Feb 30 does not exist)")
            ELSE [t |-> "components", year |-> year, month |-> month, day |-> day,
                  hour |-> hour, minute |-> minute, second |-> second]

\* Date.UTC never yields NaN for integer components, so the error branch of
\* the source is dead
createUtcTimestampFromComponents(components) == Num(DateUTC(components))

\* a parser that moves the instant the wrong way
OffsetAdded(dateInput, offsetHours) ==
  IF dateInput.t = "text" /\ parseDateStringToComponents(dateInput.c).t = "components"
    THEN Num(DateUTC(parseDateStringToComponents(dateInput.c))
               + offsetHours * SecondsPerHour)
    ELSE Str("Error: dateStr must be string \"YYYY-MM-DD HH:MM:SS\" or valid Date")

\* the UTC instant (seconds) of a date input read at offsetHours, or the error
parseInputToUtcMs(dateInput, offsetHours) ==
  LET Shifted(components) ==
        IF components.t = "str" THEN components
        ELSE Num(createUtcTimestampFromComponents(components).n
                   - offsetHours * SecondsPerHour)
  IN Shifted(CASE dateInput.t = "text" -> parseDateStringToComponents(dateInput.c)
               [] dateInput.t = "date" ->
                    [t |-> "components"] @@ UtcComponents(dateInput.sec)
               [] OTHER ->
                    Str("Error: dateStr must be string \"YYYY-MM-DD HH:MM:SS\" or valid Date"))

-----------------------------------------------------------------------------
(* Bounds and inputs *)

\* the executions of the Apps Script resolver that may run at the same time
Execs == {"e1", "e2"}
\* calls of getCryptoPrice made in all
MaxCalls == 2
\* times the clock is moved forward
MaxTicks == 1

xmr == <<"x", "m", "r">>
XMR == <<"X", "M", "R">>
GRC == <<"G", "R", "C">>
CST == <<"C", "S", "T">>
high == <<"h", "i", "g", "h">>
LOW == <<"L", "O", "W">>

\* 2025-12-09 22:46:02
PastDate ==
  <<"2", "0", "2", "5", "-", "1", "2", "-", "0", "9", " ",
    "2", "2", ":", "4", "6", ":", "0", "2">>
\* 2026-12-31 23:59:59
FutureDate ==
  <<"2", "0", "2", "6", "-", "1", "2", "-", "3", "1", " ",
    "2", "3", ":", "5", "9", ":", "5", "9">>
\* 2025-02-30 00:00:00
Feb30Date ==
  <<"2", "0", "2", "5", "-", "0", "2", "-", "3", "0", " ",
    "0", "0", ":", "0", "0", ":", "0", "0">>
\* 2025-13-01 00:00:00
Month13Date ==
  <<"2", "0", "2", "5", "-", "1", "3", "-", "0", "1", " ",
    "0", "0", ":", "0", "0", ":", "0", "0">>
\* 12/09/2025
SlashDate == <<"1", "2", "/", "0", "9", "/", "2", "0", "2", "5">>

\* the clock when the model starts: 2026-01-15 00:00:00 UTC
StartOfRun ==
  DateUTC([year |-> 2026, month |-> 1, day |-> 15, hour |-> 0, minute |-> 0, second |-> 0])

Query(token, dateStr, tz, highOrLow, apiDelayMs) ==
  [token |-> token, dateStr |-> dateStr, tz |-> tz, highOrLow |-> highOrLow,
   apiDelayMs |-> apiDelayMs]

\* queries that pass normalization and reach the cache
ValidQueries ==
  { Query(xmr, Text(PastDate), Text(CST), high, GENERAL_DELAY_MS),
    Query(GRC, Text(PastDate), Text(CST), LOW, 0) }

FutureQueries ==
  { Query(xmr, Text(FutureDate), Text(CST), high, GENERAL_DELAY_MS),
    Query(xmr, DateObject(StartOfRun + SecondsPerDay), Text(CST), high, 0) }

InvalidQueries ==
  { Query(xmr, Text(d), Text(CST), high, GENERAL_DELAY_MS) :
      d \in {Feb30Date, Month13Date, SlashDate} }
    \cup { Query(xmr, Num(46000), Text(CST), high, GENERAL_DELAY_MS),
           Query(xmr, InvalidDateObject, Text(CST), high, 0) }

Queries == ValidQueries \cup FutureQueries \cup InvalidQueries

NoQuery == Query(<<>>, Null, Null, <<>>, 0)

(* Provider responses.  A response is a status code with a body; the body of
   a 200 is the parsed JSON or Malformed, a text JSON.parse throws on. *)

Malformed == [t |-> "malformed"]
Json(v) == [t |-> "json", v |-> v]
Response(code, body) == [code |-> code, body |-> body]
JsonParseError == "Unexpected token < in JSON at position 0"

\* an answer that is no 200: an HTTP error or HTTP 429
HttpFailures == {Response(500, Null), Response(429, Null)}

Pair(base, quote) == [baseAsset |-> base, quoteAsset |-> quote]
Listings ==
  { <<>>, <<Pair(XMR, "USDT")>>, <<Pair(XMR, "BTC")>>,
    <<Pair(XMR, "BTC"), Pair(XMR, "USDT")>>, <<Pair(<<"E", "T", "H">>, "USDT")>> }

\* a kline row [openTime, open, high, low]; the prices are texts
Candle(time) == <<time, NumToChars(18900), NumToChars(19120), NumToChars(18900)>>
\* the returned candle starts at the tolerance before the requested instant
\* or a second earlier
KlineBodies(utcMs) ==
  {<<>>} \cup {<<Candle(utcMs - lag)>> : lag \in {CANDLE_TOLERANCE, CANDLE_TOLERANCE + 1}}

BtcUsd == 100000
BtcBodies == {[usd |-> Num(BtcUsd)], [usd |-> Undefined]}

Venue(stale, volume, usd) == [is_stale |-> stale, volume |-> volume, usd |-> usd]
TickerLists ==
  { <<>>, <<Venue(FALSE, 10, Num(4000))>>,
    <<Venue(TRUE, 30, Num(2000)), Venue(FALSE, 10, Num(4000))>> }
HistoryBodies == {[usd |-> Num(6000)], [usd |-> Undefined]}

PaprikaTickerBodies == {[quotesUSD |-> TRUE], [quotesUSD |-> FALSE]}
OhlcvBodies ==
  { <<>>, <<[high |-> Num(8000), low |-> Num(7800)]>>,
    <<[high |-> Undefined, low |-> Undefined]>> }

\* every answer a request for one of bodies may get
Responses(bodies) ==
  HttpFailures \cup {Response(200, Malformed)}
    \cup {Response(200, Json(b)) : b \in bodies}

-----------------------------------------------------------------------------
(* State *)

VARIABLES
  lockHolder,  \* the execution holding the script lock (API_LOCK), or NoOne
  cache,       \* the script cache: key -> [v: the stored text, exp: expiry]
  now,         \* the clock, in seconds
  ticks,       \* how often the clock was moved
  calls,       \* how many calls were made
  ex,          \* per execution: the position in getCryptoPrice and its locals
  platform,    \* "gas" (Apps Script) or "node": which resolver runs
  nodeCache,   \* the Map of the Node resolver: key -> value
  nd,          \* the Node process: the position in getCryptoPrice and its locals
  negativeAt,  \* key -> the time at which the resolver stored no-data under
               \* it, for the keys whose latest stored outcome is no-data
  fn,          \* the latest application of a helper function to arguments
               \* of its own: [op, args, out]
  csv,         \* the CSV batch loop of the Node program: the input rows, the
               \* rows written so far and where the loop is
  dex          \* the DexTools fetcher (crypto-price-fetchers.gs): its script
               \* lock, its script property and cache, its clock and its
               \* executions

vars ==
  <<lockHolder, cache, now, ticks, calls, ex, platform, nodeCache, nd, negativeAt,
    fn, csv, dex>>

\* the programs beside the two resolvers
tools == <<csv, dex>>

\* what a step of the Apps Script resolver leaves alone
node == <<platform, nodeCache, nd, fn, tools>>

\* no helper function has been applied
NoApplication == [op |-> "", args |-> <<>>, out |-> Null]

\* negativeAt after an outcome was stored under key
Noted(key, negative) ==
  IF negative
    THEN [k \in DOMAIN negativeAt \cup {key} |->
            IF k = key THEN now ELSE negativeAt[k]]
    ELSE [k \in DOMAIN negativeAt \ {key} |-> negativeAt[k]]

NoOne == "none"

\* an execution that is not inside a call
Idle ==
  [pc |-> "idle", q |-> NoQuery,
   lockAcquired |-> FALSE, attempt |-> 0, attempts |-> 0,
   symbol |-> "", useBTC |-> FALSE, price |-> Null, result |-> Null,
   \* what the call has done so far: sent a request, sent one without holding
   \* the lock, the tryLock calls of the lock loop, whether an attempt at the
   \* lock timed out on another execution holding it, cache reads and writes
   sent |-> FALSE, unlocked |-> FALSE, tries |-> 0, lockFailed |-> FALSE,
   read |-> FALSE, wrote |-> {}, slept |-> FALSE, sleep |-> 0,
   walk |-> <<>>, outs |-> <<>>]

\* the record a step of e starts from: sleep is the time the step sleeps
Locals(e) == [ex[e] EXCEPT !.sleep = 0]

-----------------------------------------------------------------------------
(* Cache helpers *)

\* CacheService get: the stored text, Null when absent or expired
CacheGet(key) ==
  IF key \in DOMAIN cache /\ now < cache[key].exp THEN Text(cache[key].v) ELSE Null

CachePut(c, key, chars, ttl) ==
  [k \in DOMAIN c \cup {key} |-> IF k = key THEN [v |-> chars, exp |-> now + ttl] ELSE c[k]]

CacheRemove(c, key) == [k \in DOMAIN c \ {key} |-> c[k]]

\* a lookup that takes the negative sentinel for a miss
MissOnSentinel(key) ==
  LET cached == CacheGet(key)
  IN IF cached.t = "text" /\ cached.c # <<>> /\ cached.c # NO_DATA
          /\ ParseFloat(cached.c).t # "nan"
       THEN ParseFloat(cached.c) ELSE Null

\* what getCachedResult(key) returns
getCachedResult(key) ==
  LET cached == CacheGet(key)
  IN IF cached.t = "text" /\ cached.c # <<>>
       THEN IF cached.c = NO_DATA THEN Str("No data available (cached)")
            ELSE IF ParseFloat(cached.c).t = "nan" THEN Null
            ELSE ParseFloat(cached.c)
       ELSE Null

\* the cache after getCachedResult(key): an entry that is no number is removed
CacheAfterGet(key) ==
  LET cached == CacheGet(key)
  IN IF cached.t = "text" /\ cached.c # <<>> /\ cached.c # NO_DATA
          /\ ParseFloat(cached.c).t = "nan"
       THEN CacheRemove(cache, key) ELSE cache

\* the text setCachedResult stores for value
ValueToCache(value) == IF IsNumber(value) THEN NumToChars(value.n) ELSE NO_DATA

\* the cache after setCachedResult(key, value, ttl)
setCachedResult(key, value, ttl) == CachePut(cache, key, ValueToCache(value), ttl)

-----------------------------------------------------------------------------
(* getCryptoPrice: the values derived from the arguments *)

Token(q) == ToLowerCase(q.token)

\* safeDateStr; Null for an input that is neither a string nor a valid Date
SafeDateStr(q) ==
  CASE q.dateStr.t = "text" -> q.dateStr
    [] q.dateStr.t = "date" -> Text(FormatDateTime(q.dateStr.sec))
    [] OTHER -> Null

UtcMs(q) == parseInputToUtcMs(SafeDateStr(q), getTimezoneOffsetHours(q.tz))

Target(q) == IF Join(ToLowerCase(q.highOrLow)) = "low" THEN "low" ELSE "high"

\* safeDateStr.replace(/[^0-9-]/g, '')
KeepDigitsAndHyphens(chars) == SelectSeq(chars, LAMBDA c : IsDigit(c) \/ c = "-")

TemplateText(v) == IF v.t = "text" THEN Join(v.c) ELSE v.t

\* a key that leaves the target out
KeyWithoutTarget(q) ==
  "price_" \o Join(Token(q)) \o "_" \o Join(KeepDigitsAndHyphens(SafeDateStr(q).c))
    \o "_" \o TemplateText(q.tz)

CacheKey(q) ==
  "price_" \o Join(Token(q)) \o "_" \o Join(KeepDigitsAndHyphens(SafeDateStr(q).c))
    \o "_" \o TemplateText(q.tz) \o "_" \o Target(q)

\* TOKEN_TO_ID[token] || { gecko: token, paprika: token }
IdMap(token) ==
  CASE Join(token) = "btc" -> [gecko |-> "bitcoin", paprika |-> "btc-bitcoin"]
    [] Join(token) = "xmr" -> [gecko |-> "monero", paprika |-> "xmr-monero"]
    [] Join(token) = "grc" -> [gecko |-> "gridcoin-research", paprika |-> "grc-gridcoin"]
    [] Join(token) = "xtm" -> [gecko |-> "minotari-tari", paprika |-> "xtm-tari"]
    [] OTHER -> [gecko |-> Join(token), paprika |-> Join(token)]

GeckoKey(q) ==
  "gecko_daily_" \o IdMap(Token(q)).gecko \o "_" \o Join(FormatDay(UtcMs(q).n))

\* price * (1 - 0.015) for low, price * (1 + 0.015) otherwise; NaN when price
\* is no number (the cached no-data string)
applySpread(price, target) ==
  IF ~IsNumber(price) THEN NaN
  ELSE IF target = "low" THEN Num((price.n * 197) \div 200)
  ELSE Num((price.n * 203) \div 200)

-----------------------------------------------------------------------------
(* getCryptoPrice: the provider walk.  Each operator gives the execution's
   record after an adapter has returned or thrown. *)

\* Utilities.sleep(ms)
Slept(r, ms) == [r EXCEPT !.sleep = @ + ms, !.slept = TRUE]

\* one outbound request by execution e
Sent(r, e) ==
  [r EXCEPT !.sent = TRUE, !.unlocked = @ \/ lockHolder # e]

\* the locals of an adapter end with its call
Left(r) ==
  [r EXCEPT !.symbol = "", !.useBTC = FALSE, !.attempts = 0, !.price = Null]

\* a catch block that reports the fault as missing data
CaughtAsNoData(r, message) ==
  [Left(r) EXCEPT !.result = Str("No data available from any source"), !.pc = "finally"]

\* lines 231-233: the catch block of getCryptoPrice
Caught(r, message) ==
  [Left(r) EXCEPT !.result = Str("Error: " \o message), !.pc = "finally"]

\* lines 198, 208, 215, 222: is the adapter's value accepted as the price?
Accepted(price) == IsNumber(price)

\* a walk that goes on to the next adapter whatever MEXC returned
MexcWalkedOn(r, price) ==
  [Left(r) EXCEPT !.outs = @ \o <<price, Null>>,
                  !.walk = Append(@, "CryptoCompare"), !.pc = "gecko"]

\* lines 197-214: MEXC has returned price; CryptoCompare returns null
MexcReturned(r, price) ==
  IF Accepted(price)
    THEN [Left(r) EXCEPT !.outs = Append(@, price), !.price = price,
                         !.pc = "put_price"]
    ELSE [Left(r) EXCEPT !.outs = @ \o <<price, Null>>,
                         !.walk = Append(@, "CryptoCompare"), !.pc = "gecko"]

\* lines 214-221
GeckoReturned(r, price) ==
  IF Accepted(price)
    THEN [Left(r) EXCEPT !.outs = Append(@, price), !.price = price,
                         !.pc = "put_price"]
    ELSE [Left(r) EXCEPT !.outs = Append(@, price), !.pc = "paprika"]

\* lines 221-230
PaprikaReturned(r, price) ==
  IF Accepted(price)
    THEN [Left(r) EXCEPT !.outs = Append(@, price), !.price = price,
                         !.pc = "put_price"]
    ELSE [Left(r) EXCEPT !.outs = Append(@, price), !.pc = "put_nodata"]

-----------------------------------------------------------------------------
(* getCryptoPrice: entry, normalization, cache lookup, lock loop *)

Call(e, q) ==
  /\ platform = "gas"
  /\ ex[e].pc \in {"idle", "done"}
  /\ calls < MaxCalls
  /\ calls' = calls + 1
  /\ ex' = [ex EXCEPT ![e] = [Idle EXCEPT !.pc = "start", !.q = q]]
  /\ UNCHANGED <<lockHolder, cache, now, ticks, node, negativeAt>>

\* a normalization without the comparison with Date.now()
FutureGoesOn(q) ==
  LET Outcome(safeDateStr, utcMs) ==
        IF safeDateStr.t = "null" THEN Str("Invalid date format")
        ELSE IF utcMs.t = "str" THEN utcMs
        ELSE Null
  IN Outcome(SafeDateStr(q), UtcMs(q))

\* a normalization that rewords what the parser reports
ErrorReworded(q) ==
  LET Outcome(safeDateStr, utcMs) ==
        IF safeDateStr.t = "null" THEN Str("Invalid date format")
        ELSE IF utcMs.t = "str" THEN Str("Error: " \o utcMs.s)
        ELSE IF utcMs.n > now THEN Str("No data available for future dates")
        ELSE Null
  IN Outcome(SafeDateStr(q), UtcMs(q))

\* lines 132-157: the outcome that ends the call before the cache is read,
\* Null when the query goes on to the cache
EarlyOutcome(q) ==
  LET Outcome(safeDateStr, utcMs) ==
        IF safeDateStr.t = "null" THEN Str("Invalid date format")
        ELSE IF utcMs.t = "str" THEN utcMs
        ELSE IF utcMs.n > now THEN Str("No data available for future dates")
        ELSE Null
  IN Outcome(SafeDateStr(q), UtcMs(q))

Normalize(e) ==
  /\ ex[e].pc = "start"
  /\ LET Started(r, early) ==
           IF early.t = "null" THEN [r EXCEPT !.pc = "lookup"]
           ELSE [r EXCEPT !.pc = "done", !.result = early]
     IN ex' = [ex EXCEPT ![e] = Started(Locals(e), EarlyOutcome(ex[e].q))]
  /\ UNCHANGED <<lockHolder, cache, now, ticks, calls, node, negativeAt>>

\* lines 159-165
Lookup(e) ==
  /\ ex[e].pc = "lookup"
  /\ LET r == [Locals(e) EXCEPT !.read = TRUE]
         cached == getCachedResult(CacheKey(r.q))
     IN /\ cache' = CacheAfterGet(CacheKey(r.q))
        /\ ex' = [ex EXCEPT ![e] =
                    IF cached.t # "null"
                      THEN [r EXCEPT !.pc = "done", !.result = cached]
                      ELSE [r EXCEPT !.pc = "lock",
                                     !.wrote = IF cache' # cache
                                                 THEN @ \cup {CacheKey(r.q)} ELSE @]]
  /\ UNCHANGED <<lockHolder, now, ticks, calls, node, negativeAt>>

\* API_LOCK.tryLock(ms) by e is granted when no execution holds the lock; it
\* times out when another execution holds it throughout the wait
Granted(e) == lockHolder = NoOne

\* lines 171-193: one turn of the lock loop
AcquireLock(e) ==
  /\ ex[e].pc = "lock"
  /\ LET r == Locals(e)
     IN IF r.q.apiDelayMs > 0
          THEN LET tried == [r EXCEPT !.tries = @ + 1]
               IN IF Granted(e)
                    THEN /\ lockHolder' = e
                         /\ ex' = [ex EXCEPT ![e] =
                                     Slept([tried EXCEPT !.lockAcquired = TRUE,
                                                         !.pc = "mexc"],
                                           r.q.apiDelayMs)]
                    ELSE /\ lockHolder' = lockHolder
                         /\ ex' = [ex EXCEPT ![e] =
                              LET backedOff ==
                                    Slept([tried EXCEPT !.attempt = @ + 1],
                                          IF r.attempt + 1 \in DOMAIN LOCK_RETRY_BACKOFF
                                            THEN LOCK_RETRY_BACKOFF[r.attempt + 1]
                                            ELSE 5000)
                              IN IF backedOff.attempt < MAX_LOCK_RETRIES THEN backedOff
                                 ELSE [backedOff EXCEPT
                                         !.lockFailed = TRUE,
                                         !.result = Str("Rate limit busy - retry later"),
                                         !.pc = "done"]]
          ELSE /\ lockHolder' = lockHolder
               /\ ex' = [ex EXCEPT ![e] = [r EXCEPT !.lockAcquired = TRUE, !.pc = "mexc"]]
  /\ UNCHANGED <<cache, now, ticks, calls, node, negativeAt>>

-----------------------------------------------------------------------------
(* getPriceFromMEXC *)

SkipTokens == {"grc", "xtm"}

\* lines 406-419: the loop over the listing; acc is [symbol, useBTC] so far
RECURSIVE PickSymbol(_, _, _)
PickSymbol(symbols, upperToken, acc) ==
  IF symbols = <<>> THEN acc
  ELSE LET sym == Head(symbols)
       IN IF Join(ToUpperCase(sym.baseAsset)) = upperToken
            THEN IF sym.quoteAsset = "USDT"
                   THEN [acc EXCEPT !.symbol = upperToken \o "USDT"]
                 ELSE IF sym.quoteAsset = "BTC"
                   THEN PickSymbol(Tail(symbols), upperToken,
                                   [symbol |-> upperToken \o "BTC", useBTC |-> TRUE])
                 ELSE PickSymbol(Tail(symbols), upperToken, acc)
            ELSE PickSymbol(Tail(symbols), upperToken, acc)

\* lines 431-439 and 445: the rows kept from a klines answer, Null when the
\* answer is no 200; a fine candle off by more than the tolerance is dropped
KlineData(resp) == IF resp.code = 200 THEN resp.body ELSE Null

HasRows(data) == data.t = "json" /\ data.v # <<>>

\* a fine window that is kept however far its candle is from the instant
DriftIgnored(data, utcMs) == data

DriftChecked(data, utcMs) ==
  IF HasRows(data)
       /\ (data.v[1][1] - utcMs > CANDLE_TOLERANCE \/ utcMs - data.v[1][1] > CANDLE_TOLERANCE)
    THEN Null
  ELSE data

\* line 450
CandlePrice(data, target) ==
  IF target = "low" THEN ParseFloat(data.v[1][4]) ELSE ParseFloat(data.v[1][3])

\* lines 450-458 once the rows are known: ask for the BTC price or return
MexcPriced(r, data) ==
  IF r.useBTC
    THEN [r EXCEPT !.price = CandlePrice(data, Target(r.q)), !.pc = "mexc_btc"]
    ELSE MexcReturned(r, CandlePrice(data, Target(r.q)))

\* price *= btcPrice
Times(price, btcPrice) ==
  IF IsNumber(price) /\ IsNumber(btcPrice) THEN Num(price.n * btcPrice.n) ELSE NaN

\* lines 389-426
MexcExchangeInfo(e) ==
  /\ ex[e].pc = "mexc"
  /\ LET r == [Locals(e) EXCEPT !.walk = Append(@, "MEXC")]
     IN IF Join(Token(r.q)) \in SkipTokens
          THEN ex' = [ex EXCEPT ![e] = MexcReturned(r, Null)]
          ELSE \E resp \in Responses({[symbols |-> l] : l \in Listings}) :
                 LET s == Sent(r, e)
                 IN ex' = [ex EXCEPT ![e] =
                      IF resp.code # 200 THEN MexcReturned(s, Null)
                      ELSE IF resp.body.t = "malformed" THEN Caught(s, JsonParseError)
                      ELSE LET picked == PickSymbol(resp.body.v.symbols,
                                                    Join(ToUpperCase(Token(r.q))),
                                                    [symbol |-> "", useBTC |-> FALSE])
                           IN IF picked.symbol = "" THEN MexcReturned(s, Null)
                              ELSE [s EXCEPT !.symbol = picked.symbol,
                                             !.useBTC = picked.useBTC,
                                             !.pc = "mexc_fine"]]
  /\ UNCHANGED <<lockHolder, cache, now, ticks, calls, node, negativeAt>>

\* lines 428-441: the 1m window
MexcFineKlines(e) ==
  /\ ex[e].pc = "mexc_fine"
  /\ \E resp \in Responses(KlineBodies(UtcMs(ex[e].q).n)) :
       LET s == Sent(Locals(e), e)
           data == DriftChecked(KlineData(resp), UtcMs(s.q).n)
       IN ex' = [ex EXCEPT ![e] =
            IF resp.code = 200 /\ resp.body.t = "malformed"
              THEN Caught(s, JsonParseError)
            ELSE IF HasRows(data) THEN MexcPriced(s, data)
            ELSE [s EXCEPT !.pc = "mexc_coarse"]]
  /\ UNCHANGED <<lockHolder, cache, now, ticks, calls, node, negativeAt>>

\* lines 441-448: the 60m window
MexcCoarseKlines(e) ==
  /\ ex[e].pc = "mexc_coarse"
  /\ \E resp \in Responses(KlineBodies(UtcMs(ex[e].q).n)) :
       LET s == Sent(Locals(e), e)
           data == KlineData(resp)
       IN ex' = [ex EXCEPT ![e] =
            IF resp.code = 200 /\ resp.body.t = "malformed"
              THEN Caught(s, JsonParseError)
            ELSE IF HasRows(data) THEN MexcPriced(s, data)
            ELSE MexcReturned(s, Null)]
  /\ UNCHANGED <<lockHolder, cache, now, ticks, calls, node, negativeAt>>

\* getBTCUSDTPrice, lines 351-356: the cached BTC price
MexcBtcCache(e) ==
  /\ ex[e].pc = "mexc_btc"
  /\ LET r == [Locals(e) EXCEPT !.read = TRUE]
         cached == CacheGet("btc_usdt")
     IN ex' = [ex EXCEPT ![e] =
          IF cached.t = "text" /\ cached.c # <<>>
            THEN MexcReturned(r, Times(r.price, ParseFloat(cached.c)))
            ELSE [r EXCEPT !.pc = "mexc_btc_fetch"]]
  /\ UNCHANGED <<lockHolder, cache, now, ticks, calls, node, negativeAt>>

\* getBTCUSDTPrice, lines 358-374, and lines 452-458
MexcBtcFetch(e) ==
  /\ ex[e].pc = "mexc_btc_fetch"
  /\ \E resp \in Responses(BtcBodies) :
       LET s == Sent(Locals(e), e)
           stored == resp.code = 200 /\ resp.body.t = "json"
                       /\ resp.body.v.usd.t = "num" /\ resp.body.v.usd.n # 0
       IN /\ cache' = IF stored
                        THEN CachePut(cache, "btc_usdt",
                                      NumToChars(resp.body.v.usd.n), BTC_PRICE)
                        ELSE cache
          /\ ex' = [ex EXCEPT ![e] =
               IF resp.code # 200 THEN MexcReturned(s, Null)
               ELSE IF resp.body.t = "malformed" THEN Caught(s, JsonParseError)
               ELSE IF ~stored THEN MexcReturned(s, Null)
               ELSE MexcReturned([s EXCEPT !.wrote = @ \cup {"btc_usdt"}],
                                 Times(s.price, resp.body.v.usd))]
  /\ UNCHANGED <<lockHolder, now, ticks, calls, node, negativeAt>>

-----------------------------------------------------------------------------
(* getPriceFromCoinGecko *)

\* lines 524-532: the price of the venue with the largest volume among the
\* venues that are not stale and carry a USD price
RECURSIVE SelectTicker(_, _, _)
SelectTicker(tickers, maxVol, selPrice) ==
  IF tickers = <<>> THEN selPrice
  ELSE LET tk == Head(tickers)
       IN IF ~tk.is_stale /\ tk.volume > maxVol /\ tk.usd.t = "num" /\ tk.usd.n # 0
            THEN SelectTicker(Tail(tickers), tk.volume, tk.usd)
            ELSE SelectTicker(Tail(tickers), maxVol, selPrice)

\* lines 467-474: the daily cache of the adapter
GeckoCache(e) ==
  /\ ex[e].pc = "gecko"
  /\ LET r == [Locals(e) EXCEPT !.walk = Append(@, "CoinGecko"), !.read = TRUE]
         price == getCachedResult(GeckoKey(r.q))
     IN /\ cache' = CacheAfterGet(GeckoKey(r.q))
        /\ ex' = [ex EXCEPT ![e] =
             IF price.t # "null" THEN GeckoReturned(r, applySpread(price, Target(r.q)))
             ELSE [r EXCEPT !.pc = "gecko_lock",
                            !.wrote = IF cache' # cache
                                        THEN @ \cup {GeckoKey(r.q)} ELSE @]]
  /\ UNCHANGED <<lockHolder, now, ticks, calls, node, negativeAt>>

\* lines 476-481.  The execution may hold the lock already (taken in
\* getCryptoPrice): LockService does not say whether a second tryLock by
\* the holder is granted, so both answers are possible.
GeckoLock(e) ==
  /\ ex[e].pc = "gecko_lock"
  /\ LET r == Locals(e)
     IN \E granted \in BOOLEAN :
          /\ lockHolder # e => granted = Granted(e)
          /\ IF granted
               THEN /\ lockHolder' = e
                    /\ ex' = [ex EXCEPT ![e] =
                                Slept([r EXCEPT !.attempts = 0, !.pc = "gecko_tickers"],
                                      GECKO_DELAY_MS)]
               ELSE /\ lockHolder' = lockHolder
                    /\ ex' = [ex EXCEPT ![e] =
                                GeckoReturned([r EXCEPT !.lockFailed = @ \/ lockHolder # e],
                                              Str("Rate limit busy - retry later"))]
  /\ UNCHANGED <<cache, now, ticks, calls, node, negativeAt>>

\* line 502 follows a throw inside the try block; ret keeps what is thrown
GeckoThrew(r, message) ==
  [r EXCEPT !.attempts = 0, !.price = Thrown(message), !.pc = "gecko_finally"]

\* lines 508-537: one turn of the loop of tryCoinGeckoTickers, from the
\* locals r and the answer to its request
TickersTurn(r, resp) ==
  LET s == [r EXCEPT !.attempts = @ + 1]
      \* the loop is left with null after the third attempt
      again == IF s.attempts < GECKO_ATTEMPTS THEN s
               ELSE [s EXCEPT !.attempts = 0, !.pc = "gecko_history"]
      price == SelectTicker(resp.body.v.tickers, 0, Null)
  IN IF resp.code = 429 THEN Slept(again, GECKO_429_SLEEP_MS)
     ELSE IF resp.code # 200 THEN again
     ELSE IF resp.body.t = "malformed" THEN GeckoThrew(s, JsonParseError)
     ELSE IF price.t # "null"
       THEN [s EXCEPT !.attempts = 0, !.price = price, !.pc = "gecko_put"]
     ELSE [s EXCEPT !.attempts = 0, !.pc = "gecko_history"]

\* lines 484-487 and 506-538: one request of tryCoinGeckoTickers
GeckoTickers(e) ==
  /\ ex[e].pc = "gecko_tickers"
  /\ \E resp \in Responses({[tickers |-> l] : l \in TickerLists}) :
       ex' = [ex EXCEPT ![e] = TickersTurn(Sent(Locals(e), e), resp)]
  /\ UNCHANGED <<lockHolder, cache, now, ticks, calls, node, negativeAt>>

\* lines 542-563: one turn of the loop of tryCoinGeckoHistory
HistoryTurn(r, resp) ==
  LET s == [r EXCEPT !.attempts = @ + 1]
      again == IF s.attempts < GECKO_ATTEMPTS THEN s
               ELSE [s EXCEPT !.attempts = 0, !.price = Null, !.pc = "gecko_put"]
      price == resp.body.v.usd
  IN IF resp.code = 429 THEN Slept(again, GECKO_429_SLEEP_MS)
     ELSE IF resp.code # 200 THEN again
     ELSE IF resp.body.t = "malformed" THEN GeckoThrew(s, JsonParseError)
     ELSE IF price.t = "num" /\ price.n # 0
       THEN [s EXCEPT !.attempts = 0, !.price = price, !.pc = "gecko_put"]
     ELSE again

\* lines 488-492 and 540-565: one request of tryCoinGeckoHistory
GeckoHistory(e) ==
  /\ ex[e].pc = "gecko_history"
  /\ \E resp \in Responses(HistoryBodies) :
       ex' = [ex EXCEPT ![e] = HistoryTurn(Sent(Locals(e), e), resp)]
  /\ UNCHANGED <<lockHolder, cache, now, ticks, calls, node, negativeAt>>

\* lines 494-500: both writes use the default TTL of setCachedResult
GeckoPut(e) ==
  /\ ex[e].pc = "gecko_put"
  /\ LET r == Locals(e)
     IN /\ cache' = setCachedResult(GeckoKey(r.q),
                                    IF r.price.t # "null" THEN r.price ELSE Str("NO_DATA"),
                                    DAILY_PRICE)
        /\ ex' = [ex EXCEPT ![e] =
             [r EXCEPT !.wrote = @ \cup {GeckoKey(r.q)},
                       !.price = IF r.price.t # "null"
                                   THEN applySpread(r.price, Target(r.q))
                                   ELSE Str("No data available (cached)"),
                       !.attempts = 0,
                       !.pc = "gecko_finally"]]
  /\ UNCHANGED <<lockHolder, now, ticks, calls, node, negativeAt>>

\* lines 501-503: if (API_LOCK.hasLock()) API_LOCK.releaseLock()
GeckoFinally(e) ==
  /\ ex[e].pc = "gecko_finally"
  /\ lockHolder' = IF lockHolder = e THEN NoOne ELSE lockHolder
  /\ LET r == Locals(e)
     IN ex' = [ex EXCEPT ![e] =
          IF r.price.t = "throw" THEN Caught(r, r.price.s)
          ELSE GeckoReturned(r, r.price)]
  /\ UNCHANGED <<cache, now, ticks, calls, node, negativeAt>>

-----------------------------------------------------------------------------
(* getPriceFromCoinPaprika *)

\* lines 568-577
PaprikaTickers(e) ==
  /\ ex[e].pc = "paprika"
  /\ \E resp \in Responses(PaprikaTickerBodies) :
       LET s == Sent([Locals(e) EXCEPT !.walk = Append(@, "CoinPaprika")], e)
       IN ex' = [ex EXCEPT ![e] =
            IF resp.code # 200 THEN PaprikaReturned(s, Null)
            ELSE IF resp.body.t = "malformed" THEN Caught(s, JsonParseError)
            ELSE IF ~resp.body.v.quotesUSD THEN PaprikaReturned(s, Null)
            ELSE [s EXCEPT !.pc = "paprika_ohlcv"]]
  /\ UNCHANGED <<lockHolder, cache, now, ticks, calls, node, negativeAt>>

\* parseFloat of a JSON number, NaN for a missing field
ParseFloatOf(v) == IF v.t = "num" THEN v ELSE NaN

\* lines 579-594
PaprikaOhlcv(e) ==
  /\ ex[e].pc = "paprika_ohlcv"
  /\ \E resp \in Responses(OhlcvBodies) :
       LET s == Sent(Locals(e), e)
           ohlcv == resp.body.v
       IN ex' = [ex EXCEPT ![e] =
            IF resp.code # 200 THEN PaprikaReturned(s, Null)
            ELSE IF resp.body.t = "malformed" THEN Caught(s, JsonParseError)
            ELSE IF ohlcv = <<>> THEN PaprikaReturned(s, Null)
            ELSE PaprikaReturned(s, ParseFloatOf(IF Target(s.q) = "low"
                                                   THEN ohlcv[1].low ELSE ohlcv[1].high))]
  /\ UNCHANGED <<lockHolder, cache, now, ticks, calls, node, negativeAt>>

-----------------------------------------------------------------------------
(* getCryptoPrice: the result is cached, the lock released *)

\* lines 199-201, 209-211, 216-218, 223-225
PutPrice(e) ==
  /\ ex[e].pc = "put_price"
  /\ cache' = setCachedResult(CacheKey(ex[e].q), ex[e].price, DAILY_PRICE)
  /\ ex' = [ex EXCEPT ![e] =
       [Locals(e) EXCEPT !.wrote = @ \cup {CacheKey(ex[e].q)}, !.result = ex[e].price,
                         !.pc = "finally"]]
  /\ negativeAt' = Noted(CacheKey(ex[e].q), ~IsNumber(ex[e].price))
  /\ UNCHANGED <<lockHolder, now, ticks, calls, node>>

\* the no-data return without the negative entry
NoDataUncached(e) ==
  /\ ex[e].pc = "put_nodata"
  /\ ex' = [ex EXCEPT ![e] =
       [Locals(e) EXCEPT !.result = Str("No data available from any source"),
                         !.pc = "finally"]]
  /\ UNCHANGED <<lockHolder, cache, now, ticks, calls, node, negativeAt>>

\* lines 228-230
PutNoData(e) ==
  /\ ex[e].pc = "put_nodata"
  /\ cache' = setCachedResult(CacheKey(ex[e].q), Str("NO_DATA"), NEGATIVE_CACHE)
  /\ ex' = [ex EXCEPT ![e] =
       [Locals(e) EXCEPT !.wrote = @ \cup {CacheKey(ex[e].q)},
                         !.result = Str("No data available from any source"),
                         !.pc = "finally"]]
  /\ negativeAt' = Noted(CacheKey(ex[e].q), TRUE)
  /\ UNCHANGED <<lockHolder, now, ticks, calls, node>>

\* a releaseLock() that was left out
Kept(e) == lockHolder

\* API_LOCK.releaseLock() by e gives up the lock e holds and does nothing
\* when e holds none
Released(e) == IF lockHolder = e THEN NoOne ELSE lockHolder

\* lines 234-239
Finally(e) ==
  /\ ex[e].pc = "finally"
  /\ lockHolder' = IF ex[e].lockAcquired THEN Released(e) ELSE lockHolder
  /\ ex' = [ex EXCEPT ![e] = [Locals(e) EXCEPT !.pc = "done"]]
  /\ UNCHANGED <<cache, now, ticks, calls, node, negativeAt>>

-----------------------------------------------------------------------------
(* The Node resolver, crypto-price-filler/index.js.  The CSV loop awaits each
   call, so one call runs at a time; the cache is a Map without expiry and
   there is no lock.  The fifth argument (verbose) only controls logging. *)

MAX_RETRIES == 3

\* a fetch that rejects (no connection)
NetworkFailure == Response(0, Null)

\* the answers the successive fetches of one fetchWithRetry call may get
FetchRuns(bodies) ==
  LET ok == {Response(200, Json(b)) : b \in bodies}
      busy == Response(429, Null)
  IN {<<r>> : r \in Responses(bodies) \cup {NetworkFailure}}
       \cup {<<busy, r>> : r \in ok} \cup {<<busy, busy, busy, r>> : r \in ok}

\* a loop that tries again after every answer that is not ok
RECURSIVE RetryAnyFailure(_, _)
RetryAnyFailure(run, attempts) ==
  IF ~(attempts < MAX_RETRIES) \/ run = <<>>
    THEN [res |-> Null, fetched |-> 0, waits |-> <<>>]
  ELSE IF Head(run) # NetworkFailure /\ Head(run).code = 200
    THEN [res |-> Head(run), fetched |-> 1, waits |-> <<>>]
  ELSE [RetryAnyFailure(Tail(run), attempts + 1) EXCEPT
          !.fetched = @ + 1, !.waits = <<5000>> \o @]

\* lines 882-903: the loop of fetchWithRetry over the answers in run, begun
\* after attempts fetches: the response it ends with (Null after a failure),
\* the number of fetches made and the backoff waits, in milliseconds
RECURSIVE FetchLoop(_, _)
FetchLoop(run, attempts) ==
  IF ~(attempts < MAX_RETRIES) \/ run = <<>>
    THEN [res |-> Null, fetched |-> 0, waits |-> <<>>]
  ELSE LET res == Head(run)
           \* CONFIG.RETRY_BACKOFF_MS[attempts - 1] || 5000
           backoff == CASE attempts + 1 = 1 -> 5000
                        [] attempts + 1 = 2 -> 10000
                        [] attempts + 1 = 3 -> 20000
                        [] OTHER -> 5000
       IN IF res = NetworkFailure THEN [res |-> Null, fetched |-> 1, waits |-> <<>>]
          ELSE IF res.code = 200 THEN [res |-> res, fetched |-> 1, waits |-> <<>>]
          ELSE IF res.code = 429
            THEN [FetchLoop(Tail(run), attempts + 1) EXCEPT
                    !.fetched = @ + 1, !.waits = <<backoff>> \o @]
          ELSE [res |-> Null, fetched |-> 1, waits |-> <<>>]

\* the response fetchWithRetry resolves to, Null after a failure
fetchWithRetry(run) == FetchLoop(run, 0).res

\* String.prototype.trim
RECURSIVE Trim(_)
Trim(chars) ==
  IF chars = <<>> THEN chars
  ELSE IF Head(chars) = " " THEN Trim(Tail(chars))
  ELSE IF chars[Len(chars)] = " " THEN Trim(SubSeq(chars, 1, Len(chars) - 1))
  ELSE chars

\* lines 714-716: CONFIG.TIMEZONE_OFFSETS[tz?.toUpperCase()] || 0
NodeGetTimezoneOffsetHours(tz) ==
  LET Or0(offset) == IF offset.t = "undefined" THEN 0 ELSE offset.n
  IN IF tz.t = "text" THEN Or0(TIMEZONE_OFFSETS(Join(ToUpperCase(tz.c)))) ELSE 0

\* lines 247-249, the earlier revision index.js still carries:
\* CONFIG.TIMEZONE_OFFSETS[tz.toUpperCase()] || 0, where null has no
\* toUpperCase
FirstGetTimezoneOffsetHours(tz) ==
  IF tz.t = "text" THEN Num(NodeGetTimezoneOffsetHours(tz))
  ELSE Thrown("Cannot read properties of null (reading 'toUpperCase')")

\* lines 651-654: safeDateStr of a string or of null
NodeSafeDateStr(q) ==
  CASE q.dateStr.t = "text" -> Trim(q.dateStr.c)
    [] q.dateStr.t \in {"null", "undefined"} -> <<>>

\* DateTime.fromFormat(dateStr, 'yyyy-MM-dd HH:mm:ss'): the components, Null
\* when the text does not match or names no instant
LuxonFromFormat(chars) ==
  IF ~MatchesDateRegex(chars) THEN Null
  ELSE LET year == ParseInt(SubSeq(chars, 1, 4))
           month == ParseInt(SubSeq(chars, 6, 7))
           day == ParseInt(SubSeq(chars, 9, 10))
           hour == ParseInt(SubSeq(chars, 12, 13))
           minute == ParseInt(SubSeq(chars, 15, 16))
           second == ParseInt(SubSeq(chars, 18, 19))
       IN IF month \in 1..12 /\ day >= 1 /\ hour <= 23 /\ minute <= 59 /\ second <= 59
               /\ IsCalendarDay(year, month, day)
            THEN [t |-> "components", year |-> year, month |-> month, day |-> day,
                  hour |-> hour, minute |-> minute, second |-> second]
            ELSE Null

\* YYYY-MM-DDTHH:mm:ssZ, the date-time format of ECMAScript, in UTC
MatchesIsoUtc(chars) ==
  /\ Len(chars) = 20
  /\ \A i \in {1, 2, 3, 4, 6, 7, 9, 10, 12, 13, 15, 16, 18, 19} : IsDigit(chars[i])
  /\ chars[5] = "-" /\ chars[8] = "-" /\ chars[11] = "T"
  /\ chars[14] = ":" /\ chars[17] = ":" /\ chars[20] = "Z"

\* new Date(dateStr).getTime(), in seconds: NaN for a text without a digit,
\* the instant an ISO text in UTC names
LegacyDateTime(chars) ==
  CASE \A i \in 1..Len(chars) : ~IsDigit(chars[i]) -> NaN
    [] MatchesIsoUtc(chars) /\ LuxonFromFormat(SubSeq(chars, 1, 10) \o <<" ">>
                                                \o SubSeq(chars, 12, 19)) # Null ->
         Num(DateUTC(LuxonFromFormat(SubSeq(chars, 1, 10) \o <<" ">>
                                       \o SubSeq(chars, 12, 19))))

\* lines 718-741: the UTC instant (seconds), Null for a text that is no date
NodeParseInputToUtcMs(chars, offsetHours) ==
  LET Fallback(time) ==
        IF time.t = "nan" THEN Null ELSE Num(time.n + offsetHours * SecondsPerHour)
      Parsed(dt) ==
        IF dt.t = "null" THEN Fallback(LegacyDateTime(chars))
        ELSE Num(DateUTC(dt) - offsetHours * SecondsPerHour)
  IN Parsed(LuxonFromFormat(chars))

NodeUtcMs(q) ==
  NodeParseInputToUtcMs(NodeSafeDateStr(q), NodeGetTimezoneOffsetHours(q.tz))

\* lines 670-676: the token is used as given
NodeCacheKey(q) ==
  "price_" \o Join(q.token) \o "_" \o Join(KeepDigitsAndHyphens(NodeSafeDateStr(q)))
    \o "_" \o TemplateText(q.tz) \o "_" \o Target(q)

NodeQueries ==
  { Query(xmr, Text(PastDate), Text(CST), high, 0),
    Query(ToLowerCase(GRC), Text(PastDate), Text(CST), LOW, 0),
    Query(xmr, Text(FutureDate), Text(CST), high, 0),
    Query(xmr, Text(<<"i", "n", "v", "a", "l", "i", "d">>), Text(CST), high, 0),
    Query(xmr, Null, Text(CST), high, 0) }

\* a Node process that is not inside a call; stored says that the call has
\* put its result into the cache
NodeIdle ==
  [pc |-> "idle", q |-> NoQuery, symbol |-> "", useBTC |-> FALSE, price |-> Null,
   result |-> Null, stored |-> FALSE, sent |-> FALSE, walk |-> <<>>, outs |-> <<>>]

\* lines 683, 693, 701: price !== null
NodeAccepted(price) == price.t # "null"

\* the call resolves to price, which it puts into the cache
NodeResolved(r, price) ==
  [r EXCEPT !.symbol = "", !.useBTC = FALSE, !.price = Null,
            !.result = price, !.stored = TRUE, !.pc = "done"]

\* res.json() rejects and nothing catches it: the call rejects
NodeRejected(r, message) ==
  [r EXCEPT !.symbol = "", !.useBTC = FALSE, !.price = Null,
            !.result = Thrown(message), !.pc = "done"]

\* lines 682-687
NodeMexcReturned(r, price) ==
  IF NodeAccepted(price) THEN NodeResolved([r EXCEPT !.outs = Append(@, price)], price)
  ELSE [r EXCEPT !.symbol = "", !.useBTC = FALSE, !.price = Null,
                 !.outs = Append(@, price), !.pc = "gecko"]

\* lines 692-697
NodeGeckoReturned(r, price) ==
  IF NodeAccepted(price) THEN NodeResolved([r EXCEPT !.outs = Append(@, price)], price)
  ELSE [r EXCEPT !.outs = Append(@, price), !.pc = "paprika"]

\* lines 700-709
NodePaprikaReturned(r, price) ==
  NodeResolved([r EXCEPT !.outs = Append(@, price)], price)

\* cache.set(cacheKey, price) of the call that has ended as r
NodeCacheAfter(r) ==
  IF r.pc = "done" /\ r.stored
    THEN LET Set(key) ==
               [k \in DOMAIN nodeCache \cup {key} |->
                  IF k = key THEN r.result ELSE nodeCache[k]]
         IN Set(NodeCacheKey(r.q))
    ELSE nodeCache

\* negativeAt after the call has ended as r
NodeNoted(r) ==
  IF r.pc = "done" /\ r.stored THEN Noted(NodeCacheKey(r.q), r.result = Null)
  ELSE negativeAt

NodeCall(q) ==
  /\ platform = "node"
  /\ nd.pc \in {"idle", "done"}
  /\ calls < MaxCalls
  /\ calls' = calls + 1
  /\ nd' = [NodeIdle EXCEPT !.pc = "start", !.q = q]
  /\ UNCHANGED <<fn, tools, platform, nodeCache, negativeAt, lockHolder, cache, now, ticks, ex>>

\* lines 642-680: up to the first await
NodeLookup ==
  /\ nd.pc = "start"
  /\ LET Started(safeDateStr, utcMs, cacheKey) ==
           IF safeDateStr = <<>> THEN [nd EXCEPT !.pc = "done"]
           ELSE IF utcMs.t = "null" \/ utcMs.n > now THEN [nd EXCEPT !.pc = "done"]
           ELSE IF cacheKey \in DOMAIN nodeCache
             THEN [nd EXCEPT !.result = nodeCache[cacheKey], !.pc = "done"]
           ELSE [nd EXCEPT !.pc = "mexc"]
     IN nd' = Started(NodeSafeDateStr(nd.q), NodeUtcMs(nd.q), NodeCacheKey(nd.q))
  /\ UNCHANGED <<fn, tools, platform, nodeCache, negativeAt, lockHolder, cache, now, ticks, calls, ex>>

NodeSkipTokens == {"grc"}

\* lines 756-766: the loop over the listing
RECURSIVE NodePickSymbol(_, _, _)
NodePickSymbol(symbols, upperToken, acc) ==
  IF symbols = <<>> THEN acc
  ELSE LET sym == Head(symbols)
       IN IF Join(sym.baseAsset) = upperToken
            THEN IF sym.quoteAsset = "USDT"
                   THEN [acc EXCEPT !.symbol = upperToken \o "USDT"]
                 ELSE IF sym.quoteAsset = "BTC"
                   THEN NodePickSymbol(Tail(symbols), upperToken,
                                       [symbol |-> upperToken \o "BTC", useBTC |-> TRUE])
                 ELSE NodePickSymbol(Tail(symbols), upperToken, acc)
            ELSE NodePickSymbol(Tail(symbols), upperToken, acc)

\* lines 744-768
NodeMexcExchangeInfo ==
  /\ nd.pc = "mexc"
  /\ LET r == [nd EXCEPT !.walk = Append(@, "MEXC")]
     IN IF Join(r.q.token) \in NodeSkipTokens
          THEN nd' = NodeMexcReturned(r, Null)
          ELSE \E run \in FetchRuns({[symbols |-> l] : l \in Listings}) :
                 LET s == [r EXCEPT !.sent = TRUE]
                     res == fetchWithRetry(run)
                 IN nd' =
                      IF res = Null THEN NodeMexcReturned(s, Null)
                      ELSE IF res.body.t = "malformed" THEN NodeRejected(s, JsonParseError)
                      ELSE LET picked == NodePickSymbol(res.body.v.symbols,
                                                        Join(ToUpperCase(r.q.token)),
                                                        [symbol |-> "", useBTC |-> FALSE])
                           IN IF picked.symbol = "" THEN NodeMexcReturned(s, Null)
                              ELSE [s EXCEPT !.symbol = picked.symbol,
                                             !.useBTC = picked.useBTC,
                                             !.pc = "mexc_fine"]
  /\ nodeCache' = NodeCacheAfter(nd')
  /\ negativeAt' = NodeNoted(nd')
  /\ UNCHANGED <<fn, tools, platform, lockHolder, cache, now, ticks, calls, ex>>

\* lines 784-796 once the rows are known
NodeMexcPriced(r, data) ==
  IF r.useBTC
    THEN [r EXCEPT !.price = CandlePrice(data, Target(r.q)), !.pc = "mexc_btc"]
    ELSE NodeMexcReturned(r, CandlePrice(data, Target(r.q)))

\* klineRes ? await klineRes.json() : null
NodeKlineData(res) == IF res = Null THEN Null ELSE res.body

\* lines 770-779: the 1m window
NodeMexcFineKlines ==
  /\ nd.pc = "mexc_fine"
  /\ \E run \in FetchRuns(KlineBodies(NodeUtcMs(nd.q).n)) :
       LET s == [nd EXCEPT !.sent = TRUE]
           res == fetchWithRetry(run)
           data == DriftChecked(NodeKlineData(res), NodeUtcMs(s.q).n)
       IN nd' = IF res # Null /\ res.body.t = "malformed"
                  THEN NodeRejected(s, JsonParseError)
                ELSE IF HasRows(data) THEN NodeMexcPriced(s, data)
                ELSE [s EXCEPT !.pc = "mexc_coarse"]
  /\ nodeCache' = NodeCacheAfter(nd')
  /\ negativeAt' = NodeNoted(nd')
  /\ UNCHANGED <<fn, tools, platform, lockHolder, cache, now, ticks, calls, ex>>

\* lines 781-788: the 60m window
NodeMexcCoarseKlines ==
  /\ nd.pc = "mexc_coarse"
  /\ \E run \in FetchRuns(KlineBodies(NodeUtcMs(nd.q).n)) :
       LET s == [nd EXCEPT !.sent = TRUE]
           res == fetchWithRetry(run)
           data == NodeKlineData(res)
       IN nd' = IF res # Null /\ res.body.t = "malformed"
                  THEN NodeRejected(s, JsonParseError)
                ELSE IF HasRows(data) THEN NodeMexcPriced(s, data)
                ELSE NodeMexcReturned(s, Null)
  /\ nodeCache' = NodeCacheAfter(nd')
  /\ negativeAt' = NodeNoted(nd')
  /\ UNCHANGED <<fn, tools, platform, lockHolder, cache, now, ticks, calls, ex>>

\* lines 791-795 and getBTCUSDTPrice, lines 873-879
NodeMexcBtcFetch ==
  /\ nd.pc = "mexc_btc"
  /\ \E run \in FetchRuns(BtcBodies) :
       LET s == [nd EXCEPT !.sent = TRUE]
           res == fetchWithRetry(run)
       IN nd' = IF res = Null THEN NodeMexcReturned(s, Null)
                ELSE IF res.body.t = "malformed" THEN NodeRejected(s, JsonParseError)
                ELSE NodeMexcReturned(s, Times(s.price, res.body.v.usd))
  /\ nodeCache' = NodeCacheAfter(nd')
  /\ negativeAt' = NodeNoted(nd')
  /\ UNCHANGED <<fn, tools, platform, lockHolder, cache, now, ticks, calls, ex>>

\* lines 804-805 and tryCoinGeckoTickers, lines 813-831
NodeGeckoTickers ==
  /\ nd.pc = "gecko"
  /\ \E run \in FetchRuns({[tickers |-> l] : l \in TickerLists}) :
       LET s == [nd EXCEPT !.walk = Append(@, "CoinGecko"), !.sent = TRUE]
           res == fetchWithRetry(run)
           price == SelectTicker(res.body.v.tickers, 0, Null)
       IN nd' = IF res = Null THEN [s EXCEPT !.pc = "gecko_history"]
                ELSE IF res.body.t = "malformed" THEN NodeRejected(s, JsonParseError)
                ELSE IF price.t # "null" THEN NodeGeckoReturned(s, price)
                ELSE [s EXCEPT !.pc = "gecko_history"]
  /\ nodeCache' = NodeCacheAfter(nd')
  /\ negativeAt' = NodeNoted(nd')
  /\ UNCHANGED <<fn, tools, platform, lockHolder, cache, now, ticks, calls, ex>>

\* lines 807-810 and tryCoinGeckoHistory, lines 833-843
NodeGeckoHistory ==
  /\ nd.pc = "gecko_history"
  /\ \E run \in FetchRuns(HistoryBodies) :
       LET s == [nd EXCEPT !.sent = TRUE]
           res == fetchWithRetry(run)
       IN nd' = IF res = Null THEN NodeGeckoReturned(s, Null)
                ELSE IF res.body.t = "malformed" THEN NodeRejected(s, JsonParseError)
                ELSE NodeGeckoReturned(s, res.body.v.usd)
  /\ nodeCache' = NodeCacheAfter(nd')
  /\ negativeAt' = NodeNoted(nd')
  /\ UNCHANGED <<fn, tools, platform, lockHolder, cache, now, ticks, calls, ex>>

\* lines 846-854
NodePaprikaTickers ==
  /\ nd.pc = "paprika"
  /\ \E run \in FetchRuns(PaprikaTickerBodies) :
       LET s == [nd EXCEPT !.walk = Append(@, "CoinPaprika"), !.sent = TRUE]
           res == fetchWithRetry(run)
       IN nd' = IF res = Null THEN NodePaprikaReturned(s, Null)
                ELSE IF res.body.t = "malformed" THEN NodeRejected(s, JsonParseError)
                ELSE IF ~res.body.v.quotesUSD THEN NodePaprikaReturned(s, Null)
                ELSE [s EXCEPT !.pc = "paprika_ohlcv"]
  /\ nodeCache' = NodeCacheAfter(nd')
  /\ negativeAt' = NodeNoted(nd')
  /\ UNCHANGED <<fn, tools, platform, lockHolder, cache, now, ticks, calls, ex>>

\* lines 856-870
NodePaprikaOhlcv ==
  /\ nd.pc = "paprika_ohlcv"
  /\ \E run \in FetchRuns(OhlcvBodies) :
       LET s == [nd EXCEPT !.sent = TRUE]
           res == fetchWithRetry(run)
           ohlcv == res.body.v
       IN nd' = IF res = Null THEN NodePaprikaReturned(s, Null)
                ELSE IF res.body.t = "malformed" THEN NodeRejected(s, JsonParseError)
                ELSE IF ohlcv = <<>> THEN NodePaprikaReturned(s, Null)
                ELSE NodePaprikaReturned(s, ParseFloatOf(IF Target(s.q) = "low"
                                                           THEN ohlcv[1].low
                                                           ELSE ohlcv[1].high))
  /\ nodeCache' = NodeCacheAfter(nd')
  /\ negativeAt' = NodeNoted(nd')
  /\ UNCHANGED <<fn, tools, platform, lockHolder, cache, now, ticks, calls, ex>>

-----------------------------------------------------------------------------
(* Time passes *)

\* the clock moves on; the cache drops the entries whose time is up
Tick(d) ==
  /\ ticks < MaxTicks
  /\ ticks' = ticks + 1
  /\ now' = now + d
  /\ cache' = [k \in {j \in DOMAIN cache : now + d < cache[j].exp} |-> cache[k]]
  /\ UNCHANGED <<lockHolder, calls, ex, node, negativeAt>>

-----------------------------------------------------------------------------
(* The helper functions on their own: FnSpec applies each of them to
   arguments drawn from the sets below, the resolvers standing still. *)

\* the labels of CONFIG.TIMEZONE_OFFSETS
TableLabels ==
  { <<"U", "T", "C">>, <<"G", "M", "T">>, <<"E", "S", "T">>, <<"E", "D", "T">>,
    <<"C", "S", "T">>, <<"C", "D", "T">>, <<"M", "S", "T">>, <<"M", "D", "T">>,
    <<"P", "S", "T">>, <<"P", "D", "T">> }

\* what a caller may pass as tz: a label in any letter case, an unknown
\* abbreviation, the empty string, null
FnLabels ==
  {Text(l) : l \in TableLabels} \cup {Text(ToLowerCase(l)) : l \in TableLabels}
    \cup { Text(<<"C", "s", "t">>), Text(<<"X", "Y", "Z">>),
           Text(<<"I", "N", "V", "A", "L", "I", "D">>), Text(<<>>), Null }

\* the text YYYY-MM-DD HH:MM:SS of the fields of c, whatever they are
DateText(c) ==
  Pad4(c.year) \o <<"-">> \o Pad2(c.month) \o <<"-">> \o Pad2(c.day) \o <<" ">>
    \o Pad2(c.hour) \o <<":">> \o Pad2(c.minute) \o <<":">> \o Pad2(c.second)

Fields(year, md, hms) ==
  [year |-> year, month |-> md[1], day |-> md[2],
   hour |-> hms[1], minute |-> hms[2], second |-> hms[3]]

\* month and day: days that exist, days that exist in some years or in no
\* year, fields out of range
FnMonthDays ==
  { <<1, 1>>, <<2, 28>>, <<2, 29>>, <<2, 30>>, <<4, 30>>, <<4, 31>>, <<12, 19>>,
    <<12, 31>>, <<13, 1>>, <<0, 10>>, <<6, 0>>, <<6, 32>> }
FnTimes == { <<0, 0, 0>>, <<0, 17, 0>>, <<23, 59, 59>>, <<24, 0, 0>>, <<12, 60, 0>>,
             <<12, 0, 60>> }
\* years whose instants fit the integers of the checker
FnYears == {1970, 2024, 2025, 2037}

\* texts in the fixed format
FixedTexts ==
  {DateText(Fields(y, md, hms)) : y \in FnYears, md \in FnMonthDays, hms \in FnTimes}

\* texts in other formats
OtherTexts ==
  { SlashDate, <<"i", "n", "v", "a", "l", "i", "d">>, <<>>,
    SubSeq(PastDate, 1, 16), PastDate \o <<" ">>,
    SubSeq(PastDate, 1, 10) \o <<"T">> \o SubSeq(PastDate, 12, 19) \o <<"Z">> }

\* texts of which the ECMAScript and Luxon documents say what the Node
\* parser makes: the fixed format naming an instant, no date at all, ISO
NodeTexts ==
  {t \in FixedTexts : LuxonFromFormat(t) # Null}
    \cup {t \in OtherTexts : MatchesIsoUtc(t) \/ \A i \in 1..Len(t) : ~IsDigit(t[i])}

\* queries that differ in token or its letter case, date, timezone label or
\* target
KeyQueries ==
  { Query(token, Text(d), Text(tz), hl, 0) :
      token \in {xmr, XMR, <<"x", "t", "m">>},
      d \in {PastDate, DateText(Fields(2025, <<12, 9>>, <<22, 46, 20>>)),
              DateText(Fields(2025, <<12, 19>>, <<0, 17, 0>>))},
      tz \in {CST, <<"U", "T", "C">>},
      hl \in {high, LOW, ToLowerCase(LOW)} }

\* texts another writer may have left in the script cache
ForeignTexts ==
  { NO_DATA, NumToChars(19120), <<"a", "b", "c">>, <<"N", "a", "N">>, <<>>,
    <<"{", "}">> }

\* what an application of a helper function leaves alone
resolvers ==
  <<lockHolder, now, ticks, calls, ex, platform, nodeCache, nd, negativeAt, tools>>

\* nothing has been applied or stored yet
Fresh == fn = NoApplication /\ cache = <<>>

Applied(op, args, out) ==
  /\ fn' = [op |-> op, args |-> args, out |-> out]
  /\ UNCHANGED <<cache, resolvers>>

ApplyOffset ==
  /\ Fresh
  /\ \E tz \in FnLabels :
       Applied("getTimezoneOffsetHours", <<tz>>,
               << Num(getTimezoneOffsetHours(tz)), Num(NodeGetTimezoneOffsetHours(tz)),
                  FirstGetTimezoneOffsetHours(tz) >>)

ApplyComponents ==
  /\ Fresh
  /\ \E chars \in FixedTexts \cup OtherTexts
                 \cup {DateText(Fields(y, md, <<0, 0, 0>>)) :
                         y \in {1969, 2000, 2100, 2101}, md \in FnMonthDays} :
       Applied("parseDateStringToComponents", <<chars>>, parseDateStringToComponents(chars))

ApplyParse ==
  /\ Fresh
  /\ \E chars \in FixedTexts \cup OtherTexts, tz \in FnLabels :
       Applied("parseInputToUtcMs", <<chars, tz>>,
               parseInputToUtcMs(Text(chars), getTimezoneOffsetHours(tz)))

ApplyNodeParse ==
  /\ Fresh
  /\ \E chars \in NodeTexts, tz \in FnLabels :
       Applied("NodeParseInputToUtcMs", <<chars, tz>>,
               NodeParseInputToUtcMs(chars, NodeGetTimezoneOffsetHours(tz)))

ApplyCacheKey ==
  /\ Fresh
  /\ \E q1 \in KeyQueries, q2 \in KeyQueries :
       Applied("cacheKey", <<q1, q2>>,
               <<CacheKey(q1), CacheKey(q2), NodeCacheKey(q1), NodeCacheKey(q2)>>)

\* an entry of the script cache written by something else than this script
StoreForeign ==
  /\ Fresh
  /\ \E key \in {CacheKey(q) : q \in ValidQueries}, chars \in ForeignTexts :
       cache' = CachePut(cache, key, chars, DAILY_PRICE)
  /\ UNCHANGED <<fn, resolvers>>

ApplyGetCachedResult ==
  /\ fn = NoApplication
  /\ \E key \in {CacheKey(q) : q \in ValidQueries} :
       /\ fn' = [op |-> "getCachedResult", args |-> <<key, CacheGet(key)>>,
                 out |-> getCachedResult(key)]
       /\ cache' = CacheAfterGet(key)
  /\ UNCHANGED resolvers

\* getPriceFromMEXC, lines 448-450, on the rows of a klines answer: the
\* provider may answer with more rows than the limit asked for
ApplyCandlePrice ==
  /\ Fresh
  /\ \E rows \in UNION {[1..n -> {<<19120, 18900>>, <<19500, 18500>>, <<19000, 18950>>}] :
                          n \in 0..2},
        target \in {"high", "low"} :
       LET Row(hl) == <<0, NumToChars(18900), NumToChars(hl[1]), NumToChars(hl[2])>>
           Data(n) == Json([i \in 1..n |-> Row(rows[i])])
           Price(data) == IF HasRows(data) THEN CandlePrice(data, target) ELSE Null
       IN Applied("candlePrice", <<rows, target>>, Price(Data(Len(rows))))

\* getPriceFromMEXC, gs lines 428-450 and index.js lines 770-789, on the
\* answers to the 1m and the 60m request: was the 60m window asked for, and
\* the price before any conversion
ApplyKlineWindows ==
  /\ Fresh
  /\ \E lag \in {0 - 121, 0 - 120, 0, 120, 121}, target \in {"high", "low"},
        fineKind \in {"rows", "empty", "malformed", "500", "429"},
        coarseKind \in {"rows", "empty", "malformed", "500"} :
       LET utcMs == DateUTC(LuxonFromFormat(PastDate))
           Row(time, h, l) == <<time, NumToChars(18900), NumToChars(h), NumToChars(l)>>
           Answer(kind, row) ==
             CASE kind = "rows" -> Response(200, Json(<<row>>))
               [] kind = "empty" -> Response(200, Json(<<>>))
               [] kind = "malformed" -> Response(200, Malformed)
               [] kind = "500" -> Response(500, Null)
               [] kind = "429" -> Response(429, Null)
           Extreme(data) == IF HasRows(data) THEN CandlePrice(data, target) ELSE Null
           Thrown200(resp) == resp.code = 200 /\ resp.body.t = "malformed"
           Windows(fine, first, coarse, second) ==
             IF Thrown200(fine) THEN [asked |-> FALSE, price |-> Thrown(JsonParseError)]
             ELSE IF HasRows(first) THEN [asked |-> FALSE, price |-> Extreme(first)]
             ELSE IF Thrown200(coarse) THEN [asked |-> TRUE, price |-> Thrown(JsonParseError)]
             ELSE [asked |-> TRUE, price |-> Extreme(second)]
           Both(fine, coarse) ==
             << Windows(fine, DriftChecked(KlineData(fine), utcMs),
                        coarse, KlineData(coarse)),
                Windows(fine, DriftChecked(NodeKlineData(fetchWithRetry(<<fine>>)), utcMs),
                        coarse, NodeKlineData(fetchWithRetry(<<coarse>>))) >>
       IN /\ fineKind # "rows" => lag = 0
          /\ Applied("klineWindows",
                     <<Answer(fineKind, Row(utcMs + lag, 19120, 18900)),
                       Answer(coarseKind, Row(utcMs - 3000, 19500, 18500)), utcMs, target>>,
                     Both(Answer(fineKind, Row(utcMs + lag, 19120, 18900)),
                          Answer(coarseKind, Row(utcMs - 3000, 19500, 18500))))

\* tryCoinGeckoTickers, gs lines 522-532 and index.js lines 820-830, on the
\* venues of a 200 answer
ApplyTickers ==
  /\ Fresh
  /\ \E tickers \in UNION {[1..n -> {Venue(stale, volume, usd) :
                                       stale \in BOOLEAN, volume \in {0, 10, 30},
                                       usd \in {Num(2000), Num(4000), Undefined}}] :
                             n \in 0..2} :
       Applied("tryCoinGeckoTickers", <<tickers>>, SelectTicker(tickers, 0, Null))

\* fetchWithRetry, index.js lines 882-903, on the answers its successive
\* fetches get: ok, HTTP 429, HTTP 500 or a rejected fetch; the body of an
\* answer is its place in the run
ApplyFetchWithRetry ==
  /\ Fresh
  /\ \E kinds \in [1..MAX_RETRIES + 1 -> {"ok", "429", "500", "throw"}] :
       LET Answer(i) ==
             CASE kinds[i] = "ok" -> Response(200, Json(i))
               [] kinds[i] = "429" -> Response(429, Null)
               [] kinds[i] = "500" -> Response(500, Null)
               [] kinds[i] = "throw" -> NetworkFailure
           Run(n) == [i \in 1..n |-> Answer(i)]
       IN Applied("fetchWithRetry", <<kinds>>, FetchLoop(Run(Len(kinds)), 0))

\* lines 508 and 542: while (attempts < 3), fed the answers of run one after
\* the other; log keeps the status of each request and the sleep after it
RECURSIVE GeckoLoop(_, _, _, _)
GeckoLoop(which, r, run, log) ==
  IF run = <<>> \/ r.pc # which THEN [pc |-> r.pc, price |-> r.price, log |-> log]
  ELSE LET n == IF which = "gecko_tickers"
                  THEN TickersTurn([r EXCEPT !.sleep = 0], Head(run))
                  ELSE HistoryTurn([r EXCEPT !.sleep = 0], Head(run))
       IN GeckoLoop(which, n, Tail(run),
                    Append(log, [code |-> Head(run).code, sleep |-> n.sleep]))

ApplyGeckoLoop ==
  /\ Fresh
  /\ \E which \in {"gecko_tickers", "gecko_history"},
        kinds \in [1..GECKO_ATTEMPTS + 1 -> {"priced", "empty", "429", "500", "malformed"}] :
       LET Body(kind) ==
             IF which = "gecko_tickers"
               THEN [tickers |-> IF kind = "priced"
                                   THEN <<Venue(FALSE, 10, Num(4000))>> ELSE <<>>]
               ELSE [usd |-> IF kind = "priced" THEN Num(6000) ELSE Undefined]
           Answer(kind) ==
             CASE kind = "429" -> Response(429, Null)
               [] kind = "500" -> Response(500, Null)
               [] kind = "malformed" -> Response(200, Malformed)
               [] OTHER -> Response(200, Json(Body(kind)))
           Run(n) == [i \in 1..n |-> Answer(kinds[i])]
       IN Applied("geckoLoop", <<which, kinds>>,
                  GeckoLoop(which, [Idle EXCEPT !.pc = which], Run(Len(kinds)), <<>>))

ShortInterval == 2 + 1

\* part_002 line 42, part_000 line 64
FETCH_INTERVAL_SECONDS == 4
\* part_002 line 45, part_000 line 67
MILLISECONDS_IN_SECOND == 1000
\* the instant of the first call of an execution, in ms from an origin that
\* lies more than the interval after instant 0, as every Date.now() does
RecursiveEpoch == 10000

\* src/unnamed/part_002 lines 58-75 and part_000 lines 74-87: one call of the
\* recursive dexToolsGetTokenPrice at instant clock, dateLastRequestMS being
\* last; args are the arguments of this call, sleeps the sleeps made so far.
\* part_000 calls itself with one array for both arguments.
RECURSIVE RecursiveGetTokenPrice(_, _, _, _, _, _)
RecursiveGetTokenPrice(part, args, last, clock, depth, sleeps) ==
  LET intervalMS == FETCH_INTERVAL_SECONDS * MILLISECONDS_IN_SECOND
      \* const now = Date.now()
      nowMs == clock
      timeSinceLastRequestMS == nowMs - last
  IN IF timeSinceLastRequestMS >= intervalMS
       THEN [last |-> nowMs, requestAt |-> nowMs, request |-> args,
             depth |-> depth, sleeps |-> sleeps]
       ELSE RecursiveGetTokenPrice(
              part,
              IF part = "part_000" THEN <<args, Undefined>> ELSE args,
              last, clock + intervalMS, depth + 1, Append(sleeps, intervalMS))

\* the calls of one execution, one after the other: gaps[k] ms pass between
\* the return of a call and the next call, a request takes took ms
RECURSIVE RecursiveCalls(_, _, _, _, _, _)
RecursiveCalls(part, gaps, took, last, clock, done) ==
  IF gaps = <<>> THEN done
  ELSE LET arrived == clock + Head(gaps)
           c == RecursiveGetTokenPrice(part, <<"pulse", "0x51a0">>, last, arrived, 0, <<>>)
       IN RecursiveCalls(part, Tail(gaps), took, c.last, c.requestAt + took,
                         Append(done, [arrived |-> arrived, before |-> last,
                                       after |-> c.last, requestAt |-> c.requestAt,
                                       request |-> c.request, depth |-> c.depth,
                                       sleeps |-> c.sleeps]))

ApplyRecursiveFetcher ==
  /\ Fresh
  /\ \E part \in {"part_000", "part_002"}, took \in {0, 500},
        gaps \in [1..3 -> {0, 2000, 3999, 4000, 6000}] :
       Applied("recursiveFetcher", <<part, took, gaps>>,
               RecursiveCalls(part, gaps, took, 0, RecursiveEpoch, <<>>))

FnNext ==
  \/ ApplyOffset
  \/ ApplyComponents
  \/ ApplyParse
  \/ ApplyNodeParse
  \/ ApplyCacheKey
  \/ StoreForeign
  \/ ApplyGetCachedResult
  \/ ApplyCandlePrice
  \/ ApplyKlineWindows
  \/ ApplyTickers
  \/ ApplyFetchWithRetry
  \/ ApplyGeckoLoop
  \/ ApplyRecursiveFetcher

-----------------------------------------------------------------------------
(* The CSV batch loop of crypto-price-filler/index.js, lines 553-626: the rows
   are numbered from 1 (the source counts from 0).  A row is its date cell
   ("date": a text in the fixed format, "other": another text, "blank",
   "total": a text holding Total) and its amount cell.  A written row keeps
   its place in the input (src) and what its lookup gave (got). *)

\* rows of one input file at most
MaxRows == 3

\* what a step of the batch loop or of the DexTools fetcher leaves alone
programs ==
  <<lockHolder, cache, now, ticks, calls, ex, platform, nodeCache, nd, negativeAt, fn>>

NoBatch == [pc |-> "idle", rows |-> <<>>, i |-> 0, lastValid |-> 0, out |-> <<>>]

\* lines 553-573: the last row whose date parses, 0 when there is none
LastValidDate(rows) ==
  IF \E k \in 1..Len(rows) : rows[k].date = "date"
    THEN CHOOSE k \in 1..Len(rows) :
           rows[k].date = "date" /\ \A j \in (k + 1)..Len(rows) : rows[j].date # "date"
    ELSE 0

\* lines 583-597: is the row written with empty cells, without a lookup?
Skipped(c) == c.i > c.lastValid \/ c.rows[c.i].date \in {"blank", "total"}

\* lines 505-553: the file is read; a file without a record has no headers
\* and ends the program before the loop
CsvRead ==
  /\ csv.pc = "idle"
  /\ \E rows \in UNION {[1..n -> { [date |-> "date", amount |-> Num(2)],
                                    [date |-> "date", amount |-> Null],
                                    [date |-> "blank", amount |-> Null],
                                    [date |-> "total", amount |-> Num(2)],
                                    [date |-> "other", amount |-> Num(2)] }] :
                          n \in 1..MaxRows} :
       csv' = [pc |-> "loop", rows |-> rows, i |-> 1,
               lastValid |-> LastValidDate(rows), out |-> <<>>]
  /\ UNCHANGED <<programs, dex>>

\* lines 583-597
CsvSkipRow ==
  /\ csv.pc = "loop" /\ csv.i <= Len(csv.rows)
  /\ Skipped(csv)
  /\ csv' = [csv EXCEPT
       !.out = Append(@, [src |-> csv.i, got |-> Str("none"),
                          price |-> Str(""), usd |-> Str("")]),
       !.i = @ + 1]
  /\ UNCHANGED <<programs, dex>>

\* lines 599-626: the lookup of one row and its cells.  getCryptoPrice
\* resolves to a price, to null, to undefined (line 842) or to NaN (line
\* 794), or rejects; for a text that is no date it resolves to null.
CsvFetchRow ==
  /\ csv.pc = "loop" /\ csv.i <= Len(csv.rows)
  /\ ~Skipped(csv)
  /\ \E got \in {Num(19120), Null, Undefined, NaN, Thrown(JsonParseError)} :
       LET row == csv.rows[csv.i]
           \* the catch block leaves price at null
           price == IF got.t = "throw" THEN Null ELSE got
           PriceCell(v) == IF v.t = "num" THEN Text(NumToChars(v.n)) ELSE Str("NaN")
           \* (amount * price).toFixed(8)
           ToFixed8(v) == IF v.t = "num" THEN [t |-> "fixed8", n |-> v.n] ELSE Str("NaN")
           usdAmount == IF price # Null /\ row.amount # Null
                          THEN ToFixed8(Times(row.amount, price)) ELSE Str("")
       IN /\ row.date = "other" => got = Null
          /\ csv' = IF price = Undefined
                      \* price.toString() throws outside the try block
                      THEN [csv EXCEPT !.pc = "crashed"]
                      ELSE [csv EXCEPT
                              !.out = Append(@, [src |-> csv.i, got |-> got,
                                                 price |-> IF price # Null
                                                             THEN PriceCell(price)
                                                             ELSE Str("Error"),
                                                 usd |-> usdAmount]),
                              !.i = @ + 1]
  /\ UNCHANGED <<programs, dex>>

\* lines 628-638: the output file is written
CsvWrite ==
  /\ csv.pc = "loop" /\ csv.i > Len(csv.rows)
  /\ csv' = [csv EXCEPT !.pc = "written"]
  /\ UNCHANGED <<programs, dex>>

CsvNext ==
  \/ CsvRead
  \/ CsvSkipRow
  \/ CsvFetchRow
  \/ CsvWrite

-----------------------------------------------------------------------------
(* The DexTools fetcher of crypto-price-fetchers.gs: custom-function
   executions that run in parallel and share the script lock, the script
   property lastDexToolsCall and the script cache.  Instants are milliseconds
   counted from an origin DexEpoch before the first execution; the origin is
   later than MILLISECONDS_BETWEEN_CALLS after instant 0, as every value of
   Date.now() is.  Until its function returns, each execution keeps the steps
   of its protected call (steps), the instant its callback started (cbStart)
   and the property's value at that instant (seen). *)

\* line 221: CONFIG.MIN_SECONDS_BETWEEN_CALLS * 1000
MILLISECONDS_BETWEEN_CALLS == 700
\* line 214
LOCK_WAIT_MS == 120000
\* line 213
CACHE_SECONDS == 300
\* line 308
BUSY == Str("Rate limit / busy - retry soon")
\* line 331
API_ERROR == Str("API error - check logs")

\* the parallel executions, the calls they make together, the ticks of the
\* clock and the length of the short tick
DexExecs == {1, 2}
MaxDexCalls == 3
MaxDexTicks == 1
DexTickMs == 350
DexEpoch == 1000

DexIdle ==
  [pc |-> "idle", which |-> "price", since |-> 0, lastMs |-> 0, nowMs |-> 0,
   sleepMs |-> 0, result |-> Null, steps |-> <<>>, cbStart |-> 0, seen |-> Null]

DexStart ==
  [lock |-> 0, last |-> Null, cache |-> [k \in {"price", "fdv"} |-> Null],
   clock |-> DexEpoch, ticks |-> 0, calls |-> 0, run |-> [e \in DexExecs |-> DexIdle]]

\* lines 248 and 273: CACHE.get, null when absent or expired
DexCacheGet(key) ==
  IF dex.cache[key] # Null /\ dex.clock < dex.cache[key].exp
    THEN Text(dex.cache[key].v) ELSE Null

\* what the callbacks return: fetchDexToolsPrice gives Number(price) or 0
\* (lines 349-375), the FDV callback gives the field as the JSON holds it or
\* 0 (lines 276-279)
DexOutcomes(which) ==
  IF which = "price" THEN {Num(5), Num(0), NaN} ELSE {Num(5), Num(0), Str("5")}

\* lines 242-251 and 270-276: the cache is asked first; a hit returns
\* Number(cached), a miss enters withRateLimitProtection and waits in tryLock
DexCall(e, which) ==
  /\ platform = "gas"
  /\ dex.run[e].pc \in {"idle", "done"}
  /\ dex.calls < MaxDexCalls
  /\ LET cached == DexCacheGet(which)
     IN dex' = [dex EXCEPT
          !.calls = @ + 1,
          !.run[e] = IF cached # Null
                       THEN [DexIdle EXCEPT !.pc = "done", !.which = which,
                                            !.result = Num(ParseInt(cached.c))]
                       ELSE [DexIdle EXCEPT !.pc = "tryLock", !.which = which,
                                            !.since = dex.clock]]
  /\ UNCHANGED <<programs, csv>>

LockIgnored == TRUE

\* line 304: the script lock is granted to one execution at a time
LockIsFree == dex.lock = 0

\* line 304: tryLock grants the lock within its wait
DexTryLock(e) ==
  /\ dex.run[e].pc = "tryLock"
  /\ LockIsFree
  /\ dex.clock - dex.run[e].since <= LOCK_WAIT_MS
  /\ dex' = [dex EXCEPT !.lock = e,
                        !.run[e].pc = "locked",
                        !.run[e].steps = <<"acquire">>]
  /\ UNCHANGED <<programs, csv>>

TimeoutReleases(e) ==
  /\ dex.run[e].pc = "tryLock"
  /\ ~LockIsFree
  /\ dex.clock - dex.run[e].since >= LOCK_WAIT_MS
  /\ dex' = [dex EXCEPT !.lock = 0, !.run[e].pc = "back", !.run[e].result = BUSY]
  /\ UNCHANGED <<programs, csv>>

\* lines 306-309: the wait is over and another execution holds the lock
DexLockTimeout(e) ==
  /\ dex.run[e].pc = "tryLock"
  /\ ~LockIsFree
  /\ dex.clock - dex.run[e].since >= LOCK_WAIT_MS
  /\ dex' = [dex EXCEPT !.run[e].pc = "back", !.run[e].result = BUSY]
  /\ UNCHANGED <<programs, csv>>

NoSleep(waitedMs) == 0

\* lines 318-322: the sleep that the time waited since the last call asks for
SleepMs(waitedMs) ==
  IF waitedMs < MILLISECONDS_BETWEEN_CALLS
    THEN MILLISECONDS_BETWEEN_CALLS - waitedMs ELSE 0

\* lines 312-319: the property and the clock are read
DexReadStamp(e) ==
  /\ dex.run[e].pc = "locked"
  /\ LET lastMs == IF dex.last # Null THEN ParseInt(dex.last.c) ELSE 0
         nowMs == dex.clock
         sleepMs == SleepMs(nowMs - lastMs)
     IN dex' = [dex EXCEPT
          !.run[e].lastMs = lastMs,
          !.run[e].nowMs = nowMs,
          !.run[e].sleepMs = sleepMs,
          !.run[e].steps = Append(@, "read"),
          !.run[e].pc = IF sleepMs > 0 THEN "sleep" ELSE "call"]
  /\ UNCHANGED <<programs, csv>>

\* line 321: Utilities.sleep ends when sleepMs have passed
DexSleep(e) ==
  /\ dex.run[e].pc = "sleep"
  /\ LET wake == dex.run[e].nowMs + dex.run[e].sleepMs
     IN dex' = [dex EXCEPT
          !.clock = IF @ < wake THEN wake ELSE @,
          !.run[e].steps = Append(@, "sleep"),
          !.run[e].pc = "call"]
  /\ UNCHANGED <<programs, csv>>

\* line 324: the callback starts
DexCallbackStart(e) ==
  /\ dex.run[e].pc = "call"
  /\ dex' = [dex EXCEPT !.run[e].pc = "inside",
                        !.run[e].cbStart = dex.clock,
                        !.run[e].seen = dex.last,
                        !.run[e].steps = Append(@, "callback")]
  /\ UNCHANGED <<programs, csv>>

\* line 324: the callback returns
DexCallbackReturn(e) ==
  /\ dex.run[e].pc = "inside"
  /\ \E v \in DexOutcomes(dex.run[e].which) :
       dex' = [dex EXCEPT !.run[e].pc = "returned", !.run[e].result = v]
  /\ UNCHANGED <<programs, csv>>

ThrowStamps(e) ==
  /\ dex.run[e].pc = "inside"
  /\ dex' = [dex EXCEPT !.last = Text(NumToChars(dex.clock)),
                        !.run[e].pc = "finally", !.run[e].result = API_ERROR]
  /\ UNCHANGED <<programs, csv>>

\* lines 329-331: the callback throws and the catch block answers
DexCallbackThrow(e) ==
  /\ dex.run[e].pc = "inside"
  /\ dex' = [dex EXCEPT !.run[e].pc = "finally", !.run[e].result = API_ERROR]
  /\ UNCHANGED <<programs, csv>>

\* line 326: Date.now().toString() is stored
DexWriteStamp(e) ==
  /\ dex.run[e].pc = "returned"
  /\ dex' = [dex EXCEPT !.last = Text(NumToChars(dex.clock)),
                        !.run[e].steps = Append(@, "write"),
                        !.run[e].pc = "finally"]
  /\ UNCHANGED <<programs, csv>>

\* lines 332-334
DexRelease(e) ==
  /\ dex.run[e].pc = "finally"
  /\ dex' = [dex EXCEPT !.lock = 0,
                        !.run[e].steps = Append(@, "release"),
                        !.run[e].pc = "back"]
  /\ UNCHANGED <<programs, csv>>

AnyNumber(r) == r.t \in {"num", "nan"}

\* lines 255 and 281: typeof price === 'number' && price > 0
Cacheable(r) == r.t = "num" /\ r.n > 0

\* lines 255-259 and 281-285: a number above 0 is cached, the result returned
DexCacheResult(e) ==
  /\ dex.run[e].pc = "back"
  /\ LET r == dex.run[e].result
     IN dex' = [dex EXCEPT
          !.cache[dex.run[e].which] =
             IF Cacheable(r)
               THEN [v |-> IF r.t = "num" THEN NumToChars(r.n) ELSE <<"N", "a", "N">>, exp |-> dex.clock + CACHE_SECONDS * 1000]
               ELSE @,
          !.run[e] = [DexIdle EXCEPT !.pc = "done", !.which = dex.run[e].which,
                                     !.result = r]]
  /\ UNCHANGED <<programs, csv>>

\* time passes: a short while, or long enough to end every wait for the lock
\* and the life of every cache entry
DexTick(d) ==
  /\ platform = "gas"
  /\ dex.ticks < MaxDexTicks
  /\ dex' = [dex EXCEPT !.clock = @ + d, !.ticks = @ + 1]
  /\ UNCHANGED <<programs, csv>>

DexStep(e) ==
  \/ \E which \in {"price", "fdv"} : DexCall(e, which)
  \/ DexTryLock(e)
  \/ DexLockTimeout(e)
  \/ DexReadStamp(e)
  \/ DexSleep(e)
  \/ DexCallbackStart(e)
  \/ DexCallbackReturn(e)
  \/ DexCallbackThrow(e)
  \/ DexWriteStamp(e)
  \/ DexRelease(e)
  \/ DexCacheResult(e)

DexNext ==
  \/ \E e \in DexExecs : DexStep(e)
  \/ \E d \in {DexTickMs, CACHE_SECONDS * 1000} : DexTick(d)

-----------------------------------------------------------------------------
(* Specification *)

Init ==
  /\ lockHolder = NoOne
  /\ cache = <<>>
  /\ now = StartOfRun
  /\ ticks = 0
  /\ calls = 0
  /\ ex = [e \in Execs |-> Idle]
  /\ platform \in {"gas", "node"}
  /\ nodeCache = <<>>
  /\ nd = NodeIdle
  /\ negativeAt = <<>>
  /\ fn = NoApplication
  /\ csv = NoBatch
  /\ dex = DexStart

\* the steps of execution e of the Apps Script resolver
Step(e) ==
  \/ \E q \in Queries : Call(e, q)
  \/ Normalize(e)
  \/ Lookup(e)
  \/ AcquireLock(e)
  \/ MexcExchangeInfo(e)
  \/ MexcFineKlines(e)
  \/ MexcCoarseKlines(e)
  \/ MexcBtcCache(e)
  \/ MexcBtcFetch(e)
  \/ GeckoCache(e)
  \/ GeckoLock(e)
  \/ GeckoTickers(e)
  \/ GeckoHistory(e)
  \/ GeckoPut(e)
  \/ GeckoFinally(e)
  \/ PaprikaTickers(e)
  \/ PaprikaOhlcv(e)
  \/ PutPrice(e)
  \/ PutNoData(e)
  \/ Finally(e)

\* the steps of the Node resolver
NodeStep ==
  \/ \E q \in NodeQueries : NodeCall(q)
  \/ NodeLookup
  \/ NodeMexcExchangeInfo
  \/ NodeMexcFineKlines
  \/ NodeMexcCoarseKlines
  \/ NodeMexcBtcFetch
  \/ NodeGeckoTickers
  \/ NodeGeckoHistory
  \/ NodePaprikaTickers
  \/ NodePaprikaOhlcv

Next ==
  \/ \E e \in Execs : Step(e)
  \/ NodeStep
  \/ Tick(NEGATIVE_CACHE)

Spec == Init /\ [][Next]_vars

FnSpec == Init /\ [][FnNext]_vars

CsvSpec == Init /\ [][CsvNext]_vars

DexSpec == Init /\ [][DexNext]_vars


-----------------------------------------------------------------------------
(* Claims *)

\* C1: with apiDelayMs > 0, every request an execution sends to a provider
\* is sent while that execution holds the script lock, the adapters consulted
\* after the CoinGecko adapter has returned included.
C1_RequestsUnderLock ==
  \A e \in Execs : ex[e].q.apiDelayMs > 0 => ~ex[e].unlocked

\* C2: an execution of getCryptoPrice that has returned does not hold the
\* script lock, whichever way it left the provider chain (a price, no data
\* from any provider, an exception).
C2_LockReleasedOnReturn ==
  \A e \in Execs : ex[e].pc \in {"idle", "done"} => lockHolder # e

\* a call that took the lock was ended by an exception thrown in the MEXC
\* adapter
C2_Witness ==
  \E e \in Execs :
    /\ ex[e].pc = "done" /\ ex[e].lockAcquired /\ ex[e].tries > 0
    /\ ex[e].walk = <<"MEXC">>
    /\ ex[e].result = Str("Error: " \o JsonParseError)

\* C3: when the cache holds an unexpired entry (a price or the negative
\* sentinel) for the key of a query, the call returns the outcome of that
\* entry, makes no attempt at the lock and sends no request; the Node
\* resolver returns what its Map holds for the key and sends no request.
C3_CacheHitReturnsAtOnce ==
  [][ /\ \A e \in Execs :
           (ex[e].pc = "lookup" /\ ex'[e] # ex[e])
             => LET key == CacheKey(ex[e].q)
                IN (key \in DOMAIN cache /\ now < cache[key].exp)
                     => /\ ex'[e].pc = "done"
                        /\ ex'[e].result =
                             IF cache[key].v = NO_DATA
                               THEN Str("No data available (cached)")
                               ELSE ParseFloat(cache[key].v)
                        /\ ex'[e].tries = 0 /\ ~ex'[e].sent
                        /\ lockHolder' = lockHolder
      /\ (nd.pc = "start" /\ nd' # nd /\ NodeCacheKey(nd.q) \in DOMAIN nodeCache)
           => /\ nd'.pc = "done"
              /\ nd'.result = nodeCache[NodeCacheKey(nd.q)]
              /\ ~nd'.sent /\ nodeCache' = nodeCache
    ]_vars

\* a call has returned a price it did not ask any provider for
C3_Witness ==
  \E e \in Execs :
    ex[e].pc = "done" /\ IsNumber(ex[e].result) /\ ex[e].read /\ ~ex[e].sent

\* C4: the adapters are consulted in one fixed order (MEXC, CryptoCompare,
\* CoinGecko, CoinPaprika; MEXC, CoinGecko, CoinPaprika in the Node
\* resolver); an adapter is called only after every earlier one returned an
\* outcome that is no price, and once an adapter has returned a numeric
\* price no later adapter is called and that price is the result.
C4_FixedOrderFirstPriceWins ==
  LET Walked(r, order) ==
        /\ Len(r.walk) <= Len(order)
        /\ \A i \in 1..Len(r.walk) : r.walk[i] = order[i]
        /\ Len(r.outs) <= Len(r.walk)
        /\ \A i \in 1..(Len(r.walk) - 1) : i <= Len(r.outs) /\ ~IsNumber(r.outs[i])
        /\ \A i \in 1..Len(r.outs) :
             IsNumber(r.outs[i])
               => i = Len(r.walk) /\ (r.pc = "done" => r.result = r.outs[i])
  IN /\ \A e \in Execs :
          Walked(ex[e], <<"MEXC", "CryptoCompare", "CoinGecko", "CoinPaprika">>)
     /\ Walked(nd, <<"MEXC", "CoinGecko", "CoinPaprika">>)

\* MEXC and CryptoCompare gave no price, CoinGecko did: the call has
\* returned that price and CoinPaprika was not called
C4_Witness ==
  \E e \in Execs :
    /\ ex[e].pc = "done"
    /\ ex[e].walk = <<"MEXC", "CryptoCompare", "CoinGecko">>
    /\ Len(ex[e].outs) = 3 /\ IsNumber(ex[e].outs[3])
    /\ ex[e].result = ex[e].outs[3]

C6_BusyLeavesCacheAlone ==
  \A e \in Execs :
    (ex[e].pc = "done" /\ ex[e].lockFailed)
      => /\ ex[e].result = Str("Rate limit busy - retry later")
         /\ CacheKey(ex[e].q) \notin ex[e].wrote


\* C7: the lock loop of getCryptoPrice calls tryLock at most three times; a
\* call whose three attempts were all refused has ended with 'Rate limit
\* busy - retry later' and is not waiting for the lock any longer.
C7_LockAttemptsBounded ==
  \A e \in Execs :
    /\ ex[e].tries <= 3
    /\ (ex[e].tries = 3 /\ ~ex[e].lockAcquired)
         => /\ ex[e].pc = "done"
            /\ ex[e].result = Str("Rate limit busy - retry later")

C7_Witness ==
  \E e \in Execs :
    /\ ex[e].pc = "done" /\ ex[e].tries = 3 /\ ~ex[e].lockAcquired
    /\ ex[e].result = Str("Rate limit busy - retry later")
    /\ lockHolder \in Execs \ {e}

\* C8: the step that normalizes a query whose instant lies after the clock
\* ends the call with the future-date outcome (null on Node); the call has
\* not read or written the cache, not tried the lock, not slept and sent no
\* request, and the cache and the lock are as they were.
C8_FutureReturnsAtOnce ==
  [][ /\ \A e \in Execs :
           LET Future(safeDateStr, utcMs) ==
                 safeDateStr.t # "null" /\ utcMs.t = "num" /\ utcMs.n > now
           IN (ex[e].pc = "start" /\ ex'[e] # ex[e]
                 /\ Future(SafeDateStr(ex[e].q), UtcMs(ex[e].q)))
                => /\ ex'[e].pc = "done"
                   /\ ex'[e].result = Str("No data available for future dates")
                   /\ ~ex'[e].read /\ ex'[e].wrote = {}
                   /\ ex'[e].tries = 0 /\ ~ex'[e].slept /\ ~ex'[e].sent
                   /\ cache' = cache /\ lockHolder' = lockHolder
      /\ LET Future(safeDateStr, utcMs) ==
                safeDateStr # <<>> /\ utcMs.t = "num" /\ utcMs.n > now
         IN (nd.pc = "start" /\ nd' # nd
               /\ Future(NodeSafeDateStr(nd.q), NodeUtcMs(nd.q)))
              => /\ nd'.pc = "done" /\ nd'.result = Null
                 /\ ~nd'.sent /\ ~nd'.stored /\ nodeCache' = nodeCache
    ]_vars

C8_Witness ==
  \E e \in Execs :
    /\ ex[e].pc = "done" /\ ex[e].q \in FutureQueries
    /\ ex[e].result = Str("No data available for future dates")
    /\ ~ex[e].read /\ ~ex[e].sent

\* C9: the step that normalizes a query whose date input is of the wrong
\* type or does not parse ends the call with 'Invalid date format' resp.
\* with the very text parseInputToUtcMs returned; the call has not read the
\* cache, not tried the lock and sent no request.
C9_InvalidDateReturnsParserError ==
  [][ \A e \in Execs :
        LET Failed(safeDateStr, utcMs) ==
              IF safeDateStr.t = "null" THEN Str("Invalid date format")
              ELSE IF utcMs.t = "str" THEN utcMs ELSE Null
            Ended(r, error) ==
              error # Null
                => /\ r.pc = "done" /\ r.result = error
                   /\ ~r.read /\ r.wrote = {} /\ r.tries = 0 /\ ~r.sent
                   /\ cache' = cache /\ lockHolder' = lockHolder
        IN (ex[e].pc = "start" /\ ex'[e] # ex[e])
             => Ended(ex'[e], Failed(SafeDateStr(ex[e].q), UtcMs(ex[e].q)))
    ]_vars

C9_Witness ==
  \E e \in Execs :
    /\ ex[e].pc = "done" /\ ex[e].q.dateStr = Text(Feb30Date)
    /\ ex[e].result = Str("Invalid date (e.g., Feb 30 does not exist)")
    /\ ~ex[e].read /\ ~ex[e].sent

\* C10: an adapter whose request is answered with a status other than 200 or
\* with a body that is no JSON yields no data and the walk goes on: a call
\* that has begun the walk has ended either on a value an adapter returned
\* and the resolver accepted, or after every adapter has returned.
C10_TransientFailureWalksOn ==
  LET Ended(r, order, accepted) ==
        (r.pc = "done" /\ r.walk # <<>> /\ ~accepted)
          => r.walk = order /\ Len(r.outs) = Len(order)
  IN /\ \A e \in Execs :
          Ended(ex[e], <<"MEXC", "CryptoCompare", "CoinGecko", "CoinPaprika">>,
                ex[e].outs # <<>> /\ Accepted(ex[e].outs[Len(ex[e].outs)]))
     /\ Ended(nd, <<"MEXC", "CoinGecko", "CoinPaprika">>,
              nd.outs # <<>> /\ NodeAccepted(nd.outs[Len(nd.outs)]))

\* C11 as stated: a call that a fault in the provider chain has ended has
\* written nothing to the cache.
C11_FaultLeavesCacheUnchanged ==
  \A e \in Execs :
    (ex[e].pc = "done" /\ ex[e].result = Str("Error: " \o JsonParseError))
      => ex[e].wrote = {}

\* C11: the step in which getCryptoPrice catches a fault thrown by an adapter
\* (the walk is left without passing through a cache write of the resolver)
\* sets a result that is a text other than the two no-data texts, writes
\* nothing to the cache, and the call has written no entry under the key of
\* its query; the rejected call of the Node resolver leaves its cache as it
\* was.  Entries an adapter wrote before the fault stay.
C11_FaultIsNotNoData ==
  [][ /\ \A e \in Execs :
           (ex[e].pc \notin {"put_price", "put_nodata", "finally"}
              /\ ex'[e].pc = "finally")
             => /\ ex'[e].result.t = "str"
                /\ ex'[e].result.s \notin {"No data available from any source",
                                            "No data available (cached)"}
                /\ cache' = cache
                /\ CacheKey(ex'[e].q) \notin ex'[e].wrote
      /\ (nd.pc # "done" /\ nd'.pc = "done" /\ nd'.result.t = "throw")
           => nodeCache' = nodeCache /\ ~nd'.stored
    ]_vars

\* CoinGecko stored its no-data entry, then CoinPaprika's body did not parse
C11_Witness ==
  \E e \in Execs :
    /\ ex[e].pc = "done" /\ ex[e].result = Str("Error: " \o JsonParseError)
    /\ ex[e].walk = <<"MEXC", "CryptoCompare", "CoinGecko", "CoinPaprika">>
    /\ ex[e].wrote = {GeckoKey(ex[e].q)}
    /\ CacheKey(ex[e].q) \notin DOMAIN cache

\* C12: every entry of the cache that holds the NO_DATA sentinel was stored
\* with the negative TTL of 300 s: its time is up no later than 300 s from
\* now.
C12_NegativeEntriesExpireSoon ==
  \A k \in DOMAIN cache :
    cache[k].v = NO_DATA => cache[k].exp <= now + 300

\* C13: when 300 s or more have passed since no-data was stored under the
\* key of a query (and nothing was stored under it since), the cache lookup
\* of the next call for that key is a miss and the call goes on to the
\* providers.
C13_NegativeEntryExpires ==
  [][ LET Stale(key) == key \in DOMAIN negativeAt /\ now >= negativeAt[key] + 300
      IN /\ \A e \in Execs :
              (ex[e].pc = "lookup" /\ ex'[e].pc # "lookup"
                 /\ Stale(CacheKey(ex[e].q)))
                => ex'[e].pc = "lock"
         /\ (nd.pc = "start" /\ nd'.pc # "start" /\ Stale(NodeCacheKey(nd.q)))
              => nd'.pc = "mexc"
    ]_vars

\* C16: what a finished call of getCryptoPrice has returned is a positive
\* number or a failure outcome (a text on Apps Script, null on Node; a
\* rejected Node call returns nothing), and every cache holds, besides the
\* no-data marks, positive numbers only.
C16_OnlyPositivePrices ==
  LET Price(v) == v.t = "num" /\ v.n > 0
      Stored(chars) == chars = NO_DATA \/ Price(ParseFloat(chars))
  IN /\ \A e \in Execs :
          ex[e].pc = "done" => ex[e].result.t = "str" \/ Price(ex[e].result)
     /\ \A k \in DOMAIN cache : Stored(cache[k].v)
     /\ nd.pc = "done"
          => nd.result = Null \/ nd.result.t = "throw" \/ Price(nd.result)
     /\ \A k \in DOMAIN nodeCache : nodeCache[k] = Null \/ Price(nodeCache[k])

\* C14: the cache key is built from token, date string, timezone label and
\* target: two valid queries that differ in one of the four, be it only in the
\* target, have different keys, on Apps Script and on Node alike.
C14_DistinctQueriesDistinctKeys ==
  fn.op = "cacheKey" =>
    LET Differ(q1, q2) ==
          \/ ToLowerCase(q1.token) # ToLowerCase(q2.token)
          \/ q1.dateStr # q2.dateStr
          \/ q1.tz # q2.tz
          \/ ToLowerCase(q1.highOrLow) # ToLowerCase(q2.highOrLow)
    IN Differ(fn.args[1], fn.args[2])
         => fn.out[1] # fn.out[2] /\ fn.out[3] # fn.out[4]

\* the keys of two queries that differ in the target only have been built
C14_Witness ==
  /\ fn.op = "cacheKey"
  /\ fn.args[1] = Query(xmr, Text(PastDate), Text(CST), high, 0)
  /\ fn.args[2] = Query(xmr, Text(PastDate), Text(CST), LOW, 0)
  /\ fn.out[1] = "price_xmr_2025-12-09224602_CST_high"
  /\ fn.out[2] = "price_xmr_2025-12-09224602_CST_low"
  /\ fn.out[3] # fn.out[4]

\* C15: when the value stored under a key is neither the NO_DATA sentinel nor
\* parseable as a number, getCachedResult returns null and the entry is gone
\* from the cache afterwards.
C15_CorruptEntryIsMissAndEvicted ==
  fn.op = "getCachedResult" =>
    LET Corrupt(cached) ==
          cached.t = "text" /\ cached.c # NO_DATA /\ ParseFloat(cached.c).t = "nan"
    IN Corrupt(fn.args[2]) => fn.out = Null /\ fn.args[1] \notin DOMAIN cache

\* C17: for every valid YYYY-MM-DD HH:MM:SS string and every offset of the
\* timezone table, parseInputToUtcMs returns the local components read as UTC
\* minus the offset, so that adding the offset back to the result gives the
\* year, month, day, hour, minute and second of the string again.
C17_OffsetRoundTrip ==
  fn.op \in {"parseInputToUtcMs", "NodeParseInputToUtcMs"} =>
    LET Leap(y) == y % 4 = 0 /\ (y % 100 # 0 \/ y % 400 = 0)
        DaysIn(y, m) ==
          CASE m = 2 -> IF Leap(y) THEN 29 ELSE 28
            [] m \in {4, 6, 9, 11} -> 30
            [] OTHER -> 31
        Valid(f) ==
          /\ f.month \in 1..12 /\ f.day \in 1..DaysIn(f.year, f.month)
          /\ f.hour \in 0..23 /\ f.minute \in 0..59 /\ f.second \in 0..59
        Hours(label) ==
          CASE label \in {"UTC", "GMT"} -> 0
            [] label \in {"EST", "CDT"} -> 0 - 5
            [] label = "EDT" -> 0 - 4
            [] label \in {"CST", "MDT"} -> 0 - 6
            [] label \in {"MST", "PDT"} -> 0 - 7
            [] label = "PST" -> 0 - 8
        RoundTrip(f, shift) ==
          /\ fn.out = Num(DateUTC(f) - shift)
          /\ UtcComponents(fn.out.n + shift) = f
        Holds(f, tz) ==
          Valid(f) /\ DateText(f) = fn.args[1]
                   /\ tz.t = "text" /\ ToUpperCase(tz.c) \in TableLabels
            => RoundTrip(f, Hours(Join(ToUpperCase(tz.c))) * SecondsPerHour)
    IN \A y \in FnYears, md \in FnMonthDays, hms \in FnTimes :
         Holds(Fields(y, md, hms), fn.args[2])

\* local 00:17 on 2025-12-19 at CDT, five hours behind, has been read as
\* 05:17 UTC
C17_Witness ==
  /\ fn.op = "parseInputToUtcMs"
  /\ fn.args = << DateText(Fields(2025, <<12, 19>>, <<0, 17, 0>>)), Text(<<"C", "D", "T">>) >>
  /\ fn.out = Num(DateUTC(Fields(2025, <<12, 19>>, <<5, 17, 0>>)))

\* C18: for every correctly formatted string that names a day its month and
\* year do not have (30 February, 31 April, 29 February of a year that is no
\* leap year), parseDateStringToComponents returns the invalid-date error,
\* which is not the format error, and no components.
C18_NoSuchDayIsInvalidDate ==
  fn.op = "parseDateStringToComponents" =>
    LET Leap(y) == y % 4 = 0 /\ (y % 100 # 0 \/ y % 400 = 0)
        DaysIn(y, m) ==
          CASE m = 2 -> IF Leap(y) THEN 29 ELSE 28
            [] m \in {4, 6, 9, 11} -> 30
            [] OTHER -> 31
        NoSuchDay(f) ==
          /\ f.year \in 1970..2100 /\ f.month \in 1..12
          /\ f.day \in DaysIn(f.year, f.month) + 1 .. 31
          /\ f.hour \in 0..23 /\ f.minute \in 0..59 /\ f.second \in 0..59
        Holds(f) ==
          NoSuchDay(f) /\ DateText(f) = fn.args[1]
            => /\ fn.out = Str("Invalid date (e.g., Feb 30 does not exist)")
               /\ fn.out # Str("Invalid format. Use exactly YYYY-MM-DD HH:MM:SS (24-hour)")
    IN \A y \in FnYears \cup {1969, 2000, 2100, 2101}, md \in FnMonthDays, hms \in FnTimes :
         Holds(Fields(y, md, hms))

\* 29 February 2100, a year that is no leap year, has been refused as a day
\* that does not exist
C18_Witness ==
  /\ fn.op = "parseDateStringToComponents"
  /\ fn.args = << DateText(Fields(2100, <<2, 29>>, <<0, 0, 0>>)) >>
  /\ fn.out = Str("Invalid date (e.g., Feb 30 does not exist)")

\* C19: a date string that does not match the pattern YYYY-MM-DD HH:MM:SS
\* exactly is refused as an error by the time normalization of either
\* platform (an error text on Apps Script, null on Node); no other format is
\* turned into an instant.
C19_OnlyTheFixedPattern ==
  /\ fn.op = "parseInputToUtcMs" /\ ~MatchesDateRegex(fn.args[1])
       => fn.out = Str("Invalid format. Use exactly YYYY-MM-DD HH:MM:SS (24-hour)")
  /\ fn.op = "NodeParseInputToUtcMs" /\ ~MatchesDateRegex(fn.args[1])
       => fn.out = Null

\* C20: getTimezoneOffsetHours is total: for a label of the table in any
\* letter case it returns the offset of the table, and for every other input
\* (an unknown abbreviation, the empty string, null) it returns 0 and does
\* not fail; this holds of the Apps Script function and of both revisions of
\* the Node function.
C20_OffsetIsTotal ==
  fn.op = "getTimezoneOffsetHours" =>
    LET Hours(label) ==
          CASE label \in {"UTC", "GMT"} -> 0
            [] label \in {"EST", "CDT"} -> 0 - 5
            [] label = "EDT" -> 0 - 4
            [] label \in {"CST", "MDT"} -> 0 - 6
            [] label \in {"MST", "PDT"} -> 0 - 7
            [] label = "PST" -> 0 - 8
            [] OTHER -> 0
        Expected(tz) == IF tz.t = "text" THEN Num(Hours(Join(ToUpperCase(tz.c)))) ELSE Num(0)
    IN \A i \in 1..3 : fn.out[i] = Expected(fn.args[1])

\* C21: for a non-empty sequence of candle rows the candle adapter's price is
\* the greatest high of all rows for the target high and the least low of all
\* rows for the target low, also when there is more than one row; for an empty
\* sequence it is no-data (null), no number.
C21_ExtremeOverAllRows ==
  fn.op = "candlePrice" =>
    LET Extreme(rows, target) ==
          IF target = "high"
            THEN CHOOSE h \in {rows[i][1] : i \in 1..Len(rows)} :
                   \A i \in 1..Len(rows) : rows[i][1] <= h
            ELSE CHOOSE l \in {rows[i][2] : i \in 1..Len(rows)} :
                   \A i \in 1..Len(rows) : rows[i][2] >= l
    IN IF fn.args[1] = <<>> THEN fn.out = Null
       ELSE fn.out = Num(Extreme(fn.args[1], fn.args[2]))

\* C22: the 60m window is asked for exactly when the 1m window is
\* unavailable (no 200), empty, or starts with a candle more than the
\* tolerance (120 s) away from the requested instant; a 1m candle within the
\* tolerance gives the price and no 60m request is made, and otherwise the
\* price is the extreme of the 60m candle (none when that window has no
\* rows).  An answer that is no JSON is a fault, not a window, and is left to
\* the claims about faults.
C22_CoarseExactlyWhenFineFails ==
  fn.op = "klineWindows" =>
    LET fine == fn.args[1]
        coarse == fn.args[2]
        Readable(resp) == resp.code # 200 \/ resp.body.t = "json"
        Rows(resp) == IF resp.code = 200 THEN resp.body.v ELSE <<>>
        Far(resp) ==
          fn.args[3] - Rows(resp)[1][1] > 120 \/ Rows(resp)[1][1] - fn.args[3] > 120
        Fails(resp) == resp.code # 200 \/ Rows(resp) = <<>> \/ Far(resp)
        Of(rows) ==
          IF rows = <<>> THEN Null
          ELSE IF fn.args[4] = "high" THEN ParseFloat(rows[1][3])
          ELSE ParseFloat(rows[1][4])
        Holds(w) ==
          /\ w.asked <=> Fails(fine)
          /\ ~Fails(fine) => w.price = Of(Rows(fine))
          /\ Fails(fine) /\ Readable(coarse) => w.price = Of(Rows(coarse))
    IN Readable(fine) => Holds(fn.out[1]) /\ Holds(fn.out[2])

\* the 1m candle was 121 s before the instant: the 60m window was asked for
\* and its high is the price
C22_Witness ==
  /\ fn.op = "klineWindows"
  /\ fn.args[1].code = 200 /\ fn.args[1].body.t = "json" /\ fn.args[1].body.v # <<>>
  /\ fn.args[1].body.v[1][1] = fn.args[3] - 121
  /\ fn.args[4] = "high"
  /\ fn.out[1] = [asked |-> TRUE, price |-> Num(19500)]
  /\ fn.out[2] = [asked |-> TRUE, price |-> Num(19500)]

\* C23: for a token listed against BTC only, getPriceFromMEXC returns the
\* candle extreme multiplied by the BTC USD price, and no-data (null) when
\* the BTC USD price cannot be obtained; it never returns a value that is no
\* number.
C23_BtcPairConvertedOrNoData ==
  [][ /\ \A e \in Execs :
           ex[e].pc \in {"mexc_btc", "mexc_btc_fetch"} /\ ex'[e].outs # <<>>
             => ex'[e].outs[1] \in {Null, Num(ex[e].price.n * BtcUsd)}
      /\ nd.pc = "mexc_btc" /\ nd'.outs # <<>>
           => nd'.outs[1] \in {Null, Num(nd.price.n * BtcUsd)} ]_vars

\* C24: for every list of venues tryCoinGeckoTickers returns the USD price of
\* a venue of the greatest volume among the venues that are not stale, and it
\* returns no price only when no venue of the list is fresh.  (Stated here
\* for the venues that carry a USD price, the others having none to return.)
C24_PriceOfLargestFreshVenue ==
  fn.op = "tryCoinGeckoTickers" =>
    LET Priced(tickers) ==
          {i \in 1..Len(tickers) : ~tickers[i].is_stale /\ tickers[i].usd.t = "num"}
        Largest(tickers) ==
          {i \in Priced(tickers) :
             \A j \in Priced(tickers) : tickers[j].volume <= tickers[i].volume}
        Holds(tickers) ==
          IF Priced(tickers) = {} THEN fn.out = Null
          ELSE \E i \in Largest(tickers) : fn.out = tickers[i].usd
    IN Holds(fn.args[1])

\* C25: fetchWithRetry fetches again only after an HTTP 429: a 429 followed
\* by an ok response gives that response after one backoff wait and two
\* fetches; any other answer that is not ok, and a fetch that throws, ends
\* the attempts at once with null; no more than MAX_RETRIES (3) fetches are
\* made in one call.
C25_RetryOnlyAfter429 ==
  fn.op = "fetchWithRetry" =>
    LET kinds == fn.args[1]
        \* the first fetch, of the three allowed, whose answer is no 429
        Ends ==
          {k \in 1..3 : kinds[k] # "429" /\ \A i \in 1..(k - 1) : kinds[i] = "429"}
        Holds(k) ==
          /\ fn.out.fetched = k
          /\ Len(fn.out.waits) = k - 1
          /\ IF kinds[k] = "ok" THEN fn.out.res = Response(200, Json(k))
             ELSE fn.out.res = Null
    IN /\ fn.out.fetched <= 3
       /\ \A k \in Ends : Holds(k)
       /\ Ends = {} => fn.out.res = Null /\ fn.out.fetched = 3

\* a 429 and then an ok response: the second response after one wait
C25_Witness ==
  /\ fn.op = "fetchWithRetry"
  /\ fn.args[1][1] = "429" /\ fn.args[1][2] = "ok"
  /\ fn.out = [res |-> Response(200, Json(2)), fetched |-> 2, waits |-> <<5000>>]

\* C26: getCryptoPrice looks the cache up under the key
\* price_{token}_{the date string reduced to its digits}_{tz}_{target}, so
\* that a value stored under price_xtm_20251219001700_UTC_high is what the
\* call for xtm, 2025-12-19 00:17:00, UTC, high finds.
C26_KeyHoldsDigitsOfDate ==
  fn.op = "cacheKey" =>
    LET Key(q) ==
          "price_" \o Join(ToLowerCase(q.token)) \o "_"
            \o Join(SelectSeq(q.dateStr.c, IsDigit)) \o "_" \o Join(q.tz.c) \o "_"
            \o Join(ToLowerCase(q.highOrLow))
    IN fn.out[1] = Key(fn.args[1]) /\ fn.out[3] = Key(fn.args[1])

\* C27: token symbols are case-insensitive: two calls of getCryptoPrice that
\* differ only in the letter case of the token (XMR and xmr) use the same
\* cache key, on Apps Script and on Node alike.
C27_TokenCaseIsIgnored ==
  fn.op = "cacheKey" =>
    LET SameButCase(q1, q2) ==
          /\ ToLowerCase(q1.token) = ToLowerCase(q2.token)
          /\ q1.dateStr = q2.dateStr /\ q1.tz = q2.tz /\ q1.highOrLow = q2.highOrLow
    IN SameButCase(fn.args[1], fn.args[2])
         => fn.out[1] = fn.out[2] /\ fn.out[3] = fn.out[4]

\* C28: in the CSV batch loop a failed row never ends the batch: the loop
\* does not stop before the last row, every input row gives one output row
\* in input order, and a row whose lookup returned no data (null) or threw
\* has the price cell Error and an empty amount cell.
C28_FailedRowNeverEndsBatch ==
  /\ csv.pc # "crashed"
  /\ \A k \in 1..Len(csv.out) :
       /\ csv.out[k].src = k
       /\ csv.out[k].got = Null \/ csv.out[k].got.t = "throw"
            => csv.out[k].price = Str("Error") /\ csv.out[k].usd = Str("")
  /\ csv.pc = "written" => Len(csv.out) = Len(csv.rows)

\* C29: in the DexTools fetcher at most one execution at a time is inside the
\* callback of withRateLimitProtection; the steps of each protected call are,
\* in this order, acquire lock, read last-call timestamp, sleep (when a sleep
\* is due), run callback, write last-call timestamp (when the callback
\* returned), release lock; and the lock is held by an execution exactly from
\* its acquire to its release, so every path that acquired it released it.
C29_OneCallbackStepsInOrder ==
  LET r(e) == dex.run[e]
      Whole(e) ==
        <<"acquire", "read">>
          \o (IF r(e).sleepMs > 0 THEN <<"sleep">> ELSE <<>>)
          \o <<"callback">>
          \o (IF r(e).result # API_ERROR THEN <<"write">> ELSE <<>>)
          \o <<"release">>
      Before(e) ==
        <<"acquire", "read">>
          \o (IF r(e).sleepMs > 0 THEN <<"sleep">> ELSE <<>>)
          \o <<"callback">>
      Ended(e) == r(e).pc = "back" /\ r(e).steps # <<>>
  IN /\ Cardinality({e \in DexExecs : r(e).pc = "inside"}) <= 1
     /\ \A e \in DexExecs :
          /\ r(e).pc = "inside" => dex.lock = e /\ r(e).steps = Before(e)
          /\ Ended(e) => r(e).steps = Whole(e)
          /\ ~Ended(e) /\ r(e).steps # <<>> =>
               /\ Len(r(e).steps) <= Len(Whole(e))
               /\ \A k \in 1..Len(r(e).steps) :
                    r(e).steps[k] \in {Whole(e)[k], Whole(e)[k + 1]}
          /\ dex.lock = e <=>
               r(e).steps # <<>> /\ r(e).steps[Len(r(e).steps)] # "release"

\* one execution is back from a protected call that took all six steps and
\* holds the lock no more, while another is inside its callback
C29_Witness ==
  \E e \in DexExecs, o \in DexExecs :
    /\ e # o
    /\ dex.run[e].pc = "back"
    /\ dex.run[e].steps = <<"acquire", "read", "sleep", "callback", "write", "release">>
    /\ dex.run[o].pc = "inside"
    /\ dex.lock = o

\* C30: in the DexTools fetcher every callback starts at least
\* MILLISECONDS_BETWEEN_CALLS after the last-call timestamp that the previous
\* callback recorded, and an execution that finds less time elapsed on the
\* clock it reads under the lock sleeps exactly the remaining difference,
\* and does not sleep otherwise.
C30_CallsSpacedBySleep ==
  \A e \in DexExecs :
    LET r == dex.run[e]
        prev == IF r.seen = Null THEN 0 ELSE ParseInt(r.seen.c)
    IN r.cbStart # 0 =>
         /\ r.cbStart >= prev + MILLISECONDS_BETWEEN_CALLS
         /\ r.nowMs - prev < MILLISECONDS_BETWEEN_CALLS
              => r.sleepMs = prev + MILLISECONDS_BETWEEN_CALLS - r.nowMs
         /\ r.nowMs - prev >= MILLISECONDS_BETWEEN_CALLS => r.sleepMs = 0

\* a callback that started exactly MILLISECONDS_BETWEEN_CALLS after the
\* recorded timestamp, after a sleep of half of it
C30_Witness ==
  \E e \in DexExecs :
    /\ dex.run[e].pc = "inside"
    /\ dex.run[e].seen # Null
    /\ dex.run[e].sleepMs = DexTickMs
    /\ dex.run[e].cbStart = ParseInt(dex.run[e].seen.c) + MILLISECONDS_BETWEEN_CALLS

\* C31: the DexTools fetcher never caches zeros or failures: every cache
\* entry is the text of a number above 0; the return of a call whose result
\* is no number above 0 (0, NaN, a text, the busy text, the API-error text)
\* leaves the cache as it was; and a call that finds no live entry for its
\* key goes on to fetch, while a call that finds one returns its number.
C31_OnlyPositiveNumbersCached ==
  [][ /\ \A k \in DOMAIN dex'.cache :
            dex'.cache[k] # Null =>
              /\ ParseFloat(dex'.cache[k].v).t = "num"
              /\ ParseFloat(dex'.cache[k].v).n > 0
      /\ \A e \in DexExecs :
            /\ (/\ dex.run[e].pc = "back" /\ dex'.run[e].pc = "done"
                /\ ~(dex.run[e].result.t = "num" /\ dex.run[e].result.n > 0))
                 => dex'.cache = dex.cache /\ dex'.run[e].result = dex.run[e].result
      /\ dex'.calls = dex.calls + 1 =>
            \E e \in DexExecs :
              LET cached == DexCacheGet(dex'.run[e].which)
              IN /\ \A o \in DexExecs \ {e} : dex'.run[o] = dex.run[o]
                 /\ \/ cached = Null /\ dex'.run[e].pc = "tryLock"
                    \/ /\ cached # Null /\ dex'.run[e].pc = "done"
                       /\ dex'.run[e].result = ParseFloat(cached.c)
    ]_vars

\* a call has returned 0 and left no entry, and the next call for the same
\* key is inside its callback, fetching again
C31_Witness ==
  \E e \in DexExecs, o \in DexExecs :
    /\ e # o
    /\ dex.run[e].pc = "done" /\ dex.run[e].result = Num(0)
    /\ dex.cache[dex.run[e].which] = Null
    /\ dex.run[o].pc = "inside" /\ dex.run[o].which = dex.run[e].which
    /\ dex.run[o].seen # Null

\* C32: when the script lock is not granted within the wait,
\* withRateLimitProtection returns the busy text and has taken no step of a
\* protected call: the callback was not run, the last-call timestamp was
\* neither read nor written, and the lock, held by another execution, was not
\* released.
C32_TimeoutTouchesNothing ==
  [][ \A e \in DexExecs :
        (dex.run[e].pc = "tryLock" /\ dex'.run[e].pc # "tryLock") =>
          \/ dex'.run[e].pc = "locked" /\ dex.lock = 0 /\ dex'.lock = e
          \/ /\ dex'.run[e].pc = "back"
             /\ dex'.run[e].result = BUSY
             /\ dex'.run[e].steps = <<>>
             /\ dex'.run[e].cbStart = 0
             /\ dex'.run[e].nowMs = 0 /\ dex'.run[e].lastMs = 0
             /\ dex.lock \notin {0, e}
             /\ dex'.lock = dex.lock
             /\ dex'.last = dex.last
             /\ dex'.cache = dex.cache
    ]_vars

\* an execution is back with the busy text while the other still holds the
\* lock inside its callback
C32_Witness ==
  \E e \in DexExecs, o \in DexExecs :
    /\ dex.run[e].pc = "back" /\ dex.run[e].result = BUSY
    /\ dex.run[e].steps = <<>>
    /\ dex.lock = o /\ o # e /\ dex.run[o].pc = "inside"

\* C37: when the callback throws, withRateLimitProtection returns the
\* API-error text; on the way from the throw to the caller's return the
\* last-call timestamp and the cache stay as they were, the lock is released,
\* and the call has logged no write of the timestamp.
C37_ThrowReleasesAndKeepsStamp ==
  [][ \A e \in DexExecs :
        /\ (dex.run[e].pc = "inside" /\ dex'.run[e].pc = "finally")
             => dex'.run[e].result = API_ERROR
        /\ (dex'.run[e].result = API_ERROR /\ dex'.run[e] # dex.run[e]) =>
             /\ dex.run[e].pc \in {"inside", "finally", "back"}
             /\ dex'.last = dex.last
             /\ dex'.cache = dex.cache
             /\ dex.run[e].pc = "inside" => dex.lock = e /\ dex'.lock = e
             /\ dex.run[e].pc = "finally" => dex.lock = e /\ dex'.lock = 0
             /\ dex.run[e].pc = "back" =>
                  /\ dex'.run[e].pc = "done"
                  /\ dex.lock # e
                  /\ \A k \in 1..Len(dex.run[e].steps) : dex.run[e].steps[k] # "write"
                  /\ dex.run[e].steps[Len(dex.run[e].steps)] = "release"
    ]_vars

\* withRateLimitProtection has returned the API-error text after a callback
\* that threw: the lock is free and the timestamp is the one that the
\* callback found
C37_Witness ==
  \E e \in DexExecs :
    /\ dex.run[e].pc = "back" /\ dex.run[e].result = API_ERROR
    /\ dex.run[e].steps = <<"acquire", "read", "sleep", "callback", "release">>
    /\ dex.lock = 0
    /\ dex.last # Null /\ dex.last = dex.run[e].seen
    /\ dex.cache[dex.run[e].which] = Null

\* C33: in the lock loop of getCryptoPrice the k-th failed tryLock (k = 1, 2,
\* 3) is followed by a sleep of 5000, 10000, 20000 ms in this order; a granted
\* tryLock is followed by a sleep of apiDelayMs and by no backoff sleep; and
\* the provider chain is entered from the lock loop only, before any request
\* is sent.
C33_BackoffThenDelay ==
  [][ \A e \in Execs :
        LET r == ex[e]
            s == ex'[e]
        IN /\ (r.pc = "lock" /\ s # r /\ r.q.apiDelayMs > 0) =>
                /\ s.tries = r.tries + 1
                /\ ~s.sent
                /\ \/ /\ lockHolder = NoOne /\ lockHolder' = e
                      /\ s.lockAcquired /\ s.pc = "mexc"
                      /\ s.sleep = r.q.apiDelayMs
                   \/ /\ lockHolder \notin {NoOne, e} /\ lockHolder' = lockHolder
                      /\ ~s.lockAcquired
                      /\ s.tries \in 1..3
                      /\ s.sleep = <<5000, 10000, 20000>>[s.tries]
                      /\ s.pc = IF s.tries < 3 THEN "lock" ELSE "done"
           /\ (r.pc # "mexc" /\ s.pc = "mexc") => r.pc = "lock"
    ]_vars

\* an execution was refused the lock once, slept 5000 ms, was granted it at
\* the second attempt and slept apiDelayMs
C33_Witness ==
  \E e \in Execs :
    /\ ex[e].pc = "mexc" /\ ex[e].tries = 2 /\ ex[e].lockAcquired
    /\ ex[e].q.apiDelayMs > 0 /\ ex[e].sleep = ex[e].q.apiDelayMs
    /\ lockHolder = e

\* C34: getPriceFromMEXC applies the multiplication by the BTC price exactly
\* when the symbol it queries is the token's BTC pair, whatever the order of
\* the token's pairs in the listing: a call that queries the USDT symbol does
\* not bridge.
C34_BridgeExactlyForBtcPair ==
  /\ \A e \in Execs :
       ex[e].symbol # "" =>
         (ex[e].useBTC <=> ex[e].symbol = Join(ToUpperCase(Token(ex[e].q))) \o "BTC")
  /\ nd.symbol # "" =>
       (nd.useBTC <=> nd.symbol = Join(ToUpperCase(nd.q.token)) \o "BTC")

\* C35: in getCryptoPrice the flag lockAcquired is true only while the
\* execution holds the script lock, so an execution that reaches the finally
\* block with the flag set, and so calls releaseLock, holds the lock then;
\* for every apiDelayMs, 0 included, and every path through the providers.
C35_FlagOnlyWhileHolding ==
  \A e \in Execs :
    (ex[e].lockAcquired /\ ex[e].pc \notin {"idle", "done"}) => lockHolder = e

\* C36: the request loops of tryCoinGeckoTickers and tryCoinGeckoHistory end
\* for every sequence of answers: a call sends at most 3 requests, sleeps
\* 5000 ms after each 429 and after no other answer, stops at the first answer
\* that ends the loop, and returns null when its three attempts are used up.
C36_GeckoLoopsEnd ==
  fn.op = "geckoLoop" =>
    LET which == fn.args[1]
        kinds == fn.args[2]
        log == fn.out.log
        \* an answer after which the loop goes round again
        Again(kind) ==
          kind \in {"429", "500"} \/ (which = "gecko_history" /\ kind = "empty")
        Ends == {k \in 1..3 : ~Again(kinds[k]) /\ \A i \in 1..(k - 1) : Again(kinds[i])}
        ReturnedNull ==
          /\ fn.out.price = Null
          /\ fn.out.pc = IF which = "gecko_tickers" THEN "gecko_history" ELSE "gecko_put"
    IN /\ fn.out.pc # which
       /\ Len(log) <= 3
       /\ \A k \in 1..Len(log) :
            /\ log[k].code = 429 <=> kinds[k] = "429"
            /\ log[k].sleep = IF kinds[k] = "429" THEN 5000 ELSE 0
       /\ \A k \in Ends : Len(log) = k
       /\ Ends = {} => Len(log) = 3 /\ ReturnedNull

\* three requests answered 429, 500, 429: two sleeps and null
C36_Witness ==
  /\ fn.op = "geckoLoop"
  /\ fn.args[1] = "gecko_history"
  /\ fn.out.log = << [code |-> 429, sleep |-> 5000], [code |-> 500, sleep |-> 0],
                     [code |-> 429, sleep |-> 5000] >>
  /\ fn.out.price = Null /\ fn.out.pc = "gecko_put"

\* C38: the Node parseInputToUtcMs applies the offset with the same sign on
\* both parse paths: with L the wall-clock time read by the strict parse of
\* yyyy-MM-dd HH:mm:ss or, when that fails, by the fallback Date parse, the
\* result is L minus the offset hours.
C38_SameSignOnBothPaths ==
  (fn.op = "NodeParseInputToUtcMs" /\ fn.out # Null) =>
    LET chars == fn.args[1]
        offsetHours == NodeGetTimezoneOffsetHours(fn.args[2])
        strict == LuxonFromFormat(chars)
        L == IF strict # Null THEN DateUTC(strict) ELSE LegacyDateTime(chars).n
    IN fn.out = Num(L - offsetHours * SecondsPerHour)

\* C39: in the recursive DexTools fetcher the calls of one caller issue a
\* price request only when at least 4000 ms (FETCH_INTERVAL_SECONDS) have
\* passed since the request time recorded before; a call that arrives
\* earlier sleeps the full interval once and retries; a call that arrives
\* later requests at once; every call ends with a request at recursion depth
\* 0 or 1 and records the time of its request.
C39_RecursiveFetcherKeepsInterval ==
  fn.op = "recursiveFetcher" =>
    \A k \in 1..Len(fn.out) :
      LET c == fn.out[k]
      IN /\ c.requestAt - c.before >= 4000
         /\ k > 1 => c.before = fn.out[k - 1].requestAt
         /\ c.after = c.requestAt
         /\ c.depth <= 1
         /\ IF c.arrived - c.before < 4000
              THEN c.sleeps = <<4000>> /\ c.depth = 1 /\ c.requestAt = c.arrived + 4000
              ELSE c.sleeps = <<>> /\ c.depth = 0 /\ c.requestAt = c.arrived

\* the second call arrived 2000 ms after the first request, slept 4000 ms
\* and requested at depth 1
C39_Witness ==
  /\ fn.op = "recursiveFetcher"
  /\ fn.args[1] = "part_002"
  /\ fn.out[2].arrived - fn.out[2].before = 2000
  /\ fn.out[2].sleeps = <<4000>> /\ fn.out[2].depth = 1
  /\ fn.out[2].requestAt - fn.out[1].requestAt = 6000
  /\ fn.out[2].request = <<"pulse", "0x51a0">>

=============================================================================
